---- MODULE Spec2Model ----
(***************************************************************************)
(* Verification model of the WebsiteSpec pipeline: schema validation       *)
(* (engine/specs/validate.ts), auto-repair (engine/specs/repair.ts),       *)
(* project generation (engine/generators) and the request handler          *)
(* (app/api/generate/route.ts) with its model-server client.               *)
(*                                                                         *)
(* JavaScript values are encoded as records.  A scalar is [t, s] where t   *)
(* is a type tag and s the characters of a string (a sequence of           *)
(* one-character strings), empty for every other type.  Object-shaped      *)
(* values carry the tag next to their fields; when the tag is not "obj"    *)
(* the fields hold Undef (reading any property of a primitive gives        *)
(* undefined) and reading a property of null/undefined is a TypeError.     *)
(***************************************************************************)
EXTENDS Integers, Sequences, FiniteSets, TLC

VARIABLES input, vres, rres, pc,            \* validation and repair of a candidate spec
          build, templates, output, zips, run, \* project generation
          post                                 \* requests to POST /api/generate

specVars == <<input, vres, rres, pc>>
genVars == <<build, templates, output, zips, run, post>>
vars == <<input, vres, rres, pc, build, templates, output, zips, run, post>>

(***************************************************************************)
(* Bounds of the explored input space.                                     *)
(***************************************************************************)
MaxPages == 2
MaxSecs == 2
MaxStrLen == 3
MaxRuns == 2

(***************************************************************************)
(* Characters and strings.                                                 *)
(***************************************************************************)
LowerAlpha == <<"a","b","c","d","e","f","g","h","i","j","k","l","m",
                "n","o","p","q","r","s","t","u","v","w","x","y","z">>
UpperAlpha == <<"A","B","C","D","E","F","G","H","I","J","K","L","M",
                "N","O","P","Q","R","S","T","U","V","W","X","Y","Z">>
DigitChars == <<"0","1","2","3","4","5","6","7","8","9">>

RangeOf(f) == {f[i] : i \in DOMAIN f}

IndexIn(sq, c) == CHOOSE i \in DOMAIN sq : sq[i] = c

\* String.prototype.toLowerCase / toUpperCase on one character
LowerChar(c) == IF c \in RangeOf(UpperAlpha) THEN LowerAlpha[IndexIn(UpperAlpha, c)] ELSE c
UpperChar(c) == IF c \in RangeOf(LowerAlpha) THEN UpperAlpha[IndexIn(LowerAlpha, c)] ELSE c

toLowerCase(s) == [i \in DOMAIN s |-> LowerChar(s[i])]

\* \s of a JavaScript regular expression
IsSpace(c) == c \in {" ", "\t", "\n"}
\* \w of a JavaScript regular expression: [A-Za-z0-9_]
IsWordChar(c) == c \in RangeOf(LowerAlpha) \cup RangeOf(UpperAlpha) \cup RangeOf(DigitChars) \cup {"_"}

RECURSIVE TrimStart(_)
TrimStart(s) == IF s # <<>> /\ IsSpace(Head(s)) THEN TrimStart(Tail(s)) ELSE s

RECURSIVE TrimEnd(_)
TrimEnd(s) == IF s # <<>> /\ IsSpace(s[Len(s)]) THEN TrimEnd(SubSeq(s, 1, Len(s) - 1)) ELSE s

\* String.prototype.trim
trim(s) == TrimEnd(TrimStart(s))

\* decimal digits of a natural number (template-literal interpolation)
RECURSIVE NatToStr(_)
NatToStr(n) == IF n < 10 THEN <<DigitChars[n + 1]>>
               ELSE NatToStr(n \div 10) \o <<DigitChars[(n % 10) + 1]>>

(***************************************************************************)
(* Scalars.                                                                *)
(***************************************************************************)
Undef == [t |-> "undef", s |-> <<>>]
Null == [t |-> "null", s |-> <<>>]
Zero == [t |-> "num0", s |-> <<>>]
Num == [t |-> "num", s |-> <<>>]
BoolT == [t |-> "true", s |-> <<>>]
BoolF == [t |-> "false", s |-> <<>>]
ObjV == [t |-> "obj", s |-> <<>>]
ArrV == [t |-> "arr", s |-> <<>>]
\* marks the result of reading a property of null or undefined (TypeError)
Thrown == [t |-> "THROW", s |-> <<>>]
Str(s) == [t |-> "str", s |-> s]

\* the typeof operator
TypeOf(v) == CASE v.t = "undef" -> "undefined"
               [] v.t \in {"null", "obj", "arr"} -> "object"
               [] v.t \in {"num0", "num"} -> "number"
               [] v.t \in {"true", "false"} -> "boolean"
               [] v.t = "str" -> "string"
               [] OTHER -> "THROW"

\* ToBoolean
Truthy(v) == \/ v.t \in {"num", "true", "obj", "arr"}
             \/ (v.t = "str" /\ v.s # <<>>)

IsNullish(v) == v.t \in {"undef", "null"}

\* o.f : the value v stored under f, or a TypeError when o is null/undefined
Prop(o, v) == IF IsNullish(o) THEN Thrown ELSE v

(***************************************************************************)
(* Structured values of a WebsiteSpec candidate.                           *)
(***************************************************************************)
NoTheme(tag) == [t |-> tag, primaryColor |-> Undef, font |-> Undef]
ThemeObj(c, f) == [t |-> "obj", primaryColor |-> c, font |-> f]

NoContent(tag) == [t |-> tag, entries |-> <<>>]
ContentObj(es) == [t |-> "obj", entries |-> es]

NoList(tag) == [t |-> tag, items |-> <<>>]
ListOf(xs) == [t |-> "arr", items |-> xs]

NoSection(tag) == [t |-> tag, id |-> Undef, kind |-> Undef, variant |-> Undef,
                   content |-> NoContent("undef")]
SectionObj(i, k, v, c) == [t |-> "obj", id |-> i, kind |-> k, variant |-> v, content |-> c]

NoPage(tag) == [t |-> tag, id |-> Undef, name |-> Undef, route |-> Undef,
                sections |-> NoList("undef")]
PageObj(i, n, r, ss) == [t |-> "obj", id |-> i, name |-> n, route |-> r, sections |-> ss]

NoProject(tag) == [t |-> tag, name |-> Undef, slug |-> Undef]
ProjectObj(n, sl) == [t |-> "obj", name |-> n, slug |-> sl]

NoSpec(tag) == [t |-> tag, name |-> Undef, slug |-> Undef, description |-> Undef,
                architecture |-> Undef, theme |-> NoTheme("undef"), pages |-> NoList("undef"),
                project |-> NoProject("undef")]
SpecObj(n, sl, d, a, th, ps) == [t |-> "obj", name |-> n, slug |-> sl, description |-> d,
                                 architecture |-> a, theme |-> th, pages |-> ps,
                                 project |-> NoProject("undef")]
\* the shape the generators read: identity under `project`
ProjectSpec(pr, a, th, ps) == [t |-> "obj", name |-> Undef, slug |-> Undef, description |-> Undef,
                               architecture |-> a, theme |-> th, pages |-> ps, project |-> pr]

\* the tag of a structured value, as a scalar (for typeof and truthiness)
Tag(o) == [t |-> o.t, s |-> <<>>]

S_landing == <<"l","a","n","d","i","n","g">>
S_ecommerce == <<"e","c","o","m","m","e","r","c","e">>
S_marketplace == <<"m","a","r","k","e","t","p","l","a","c","e">>

validArchitectures == <<S_landing, S_ecommerce, S_marketplace>>

\* every sequence over S of length at most n
SeqsUpTo(S, n) == UNION {[1..k -> S] : k \in 0..n}

S_a == <<"a">>
S_pad_a == <<" ","a"," ">>
S_blank == <<" ">>
S_Demo == <<"D","e","m","o">>
S_MyCoolSite == <<"M","y"," ","C","o","o","l"," ","S","i","t","e","!">>
S_my_cool_site == <<"m","y","-","c","o","o","l","-","s","i","t","e">>
S_home == <<"h","o","m","e">>
S_Home == <<"H","o","m","e">>
S_page_2 == <<"p","a","g","e","_","2">>
S_s1 == <<"s","1">>
S_sec_home_2 == <<"s","e","c","_","h","o","m","e","_","2">>
S_hero == <<"h","e","r","o">>
S_split == <<"s","p","l","i","t">>
S_default == <<"d","e","f","a","u","l","t">>
S_carousel == <<"c","a","r","o","u","s","e","l">>
S_title == <<"t","i","t","l","e">>
S_subtitle == <<"s","u","b","t","i","t","l","e">>
S_T == <<"T">>
S_S == <<"S">>
S_slash == <<"/">>
S_hex == <<"#","0","0","0","0","0","0">>
S_Inter == <<"I","n","t","e","r">>
S_blog == <<"b","l","o","g">>

Padded(s) == <<" ">> \o s \o <<" ">>
S_demo == <<"d","e","m","o">>
S_wide == <<"w","i","d","e">>
S_dot_zip == <<".","z","i","p">>
S_demo_zip == S_demo \o S_dot_zip
S_My_S == <<"M","y"," ","S","!">>
S_indigo == <<"#","6","3","6","6","f","1">>
S_amber == <<"#","f","5","9","e","0","b">>
S_white == <<"#","f","f","f","f","f","f">>
S_wine == <<"#","2","0","0","b","1","2">>
S_Roboto_Mono == <<"R","o","b","o","t","o","_","M","o","n","o">>
S_Roboto_Mono_spaced == <<"R","o","b","o","t","o"," ","M","o","n","o">>

(***************************************************************************)
(* validate (engine/specs/validate.ts).  Each check yields a sequence of   *)
(* events: an error record for a push onto `errors`, or ThrowEv when the   *)
(* evaluation raises.  The conditions are three-valued: "T", "F" or "X"    *)
(* (the evaluation threw).                                                 *)
(***************************************************************************)
Err(rule, p, sc) == [rule |-> rule, page |-> p, sec |-> sc]
ThrowEv == Err("THROW", -1, -1)

\* v.trim().length === 0
TrimIsEmpty(v) == IF v.t # "str" THEN "X"
                  ELSE IF Len(trim(v.s)) = 0 THEN "T" ELSE "F"

\* the check without its typeof guard: !v || v.trim().length === 0
BlankOrNotStringNoTypeof(v) == IF v.t = "THROW" THEN "X"
                               ELSE IF ~Truthy(v) THEN "T"
                               ELSE TrimIsEmpty(v)

\* !v || typeof v !== "string" || v.trim().length === 0
BlankOrNotString(v) == IF v.t = "THROW" THEN "X"
                       ELSE IF ~Truthy(v) THEN "T"
                       ELSE IF TypeOf(v) # "string" THEN "T"
                       ELSE TrimIsEmpty(v)

\* !v || typeof v !== "string"
FalsyOrNotString(v) == IF v.t = "THROW" THEN "X"
                       ELSE IF ~Truthy(v) THEN "T"
                       ELSE IF TypeOf(v) # "string" THEN "T" ELSE "F"

\* v !== undefined && typeof v !== "string"
DefinedNotString(v) == IF v.t = "THROW" THEN "X"
                       ELSE IF v.t # "undef" /\ TypeOf(v) # "string" THEN "T" ELSE "F"

\* v !== undefined && typeof v !== "object"
DefinedNotObject(v) == IF v.t = "THROW" THEN "X"
                       ELSE IF v.t # "undef" /\ TypeOf(v) # "object" THEN "T" ELSE "F"

\* if (cond) errors.push(e)
PushIf(cond, e) == CASE cond = "T" -> <<e>>
                     [] cond = "F" -> <<>>
                     [] OTHER -> <<ThrowEv>>

ArchitectureEvents(a) ==
    IF a.t = "undef" THEN <<>>
    ELSE IF a.t = "str" /\ a.s \in RangeOf(validArchitectures) THEN <<>>
    ELSE <<Err("architecture", -1, -1)>>

ThemeEvents(th) ==
    IF th.t = "undef" THEN <<>>
    ELSE IF TypeOf(Tag(th)) # "object" \/ th.t = "null" THEN <<Err("theme", -1, -1)>>
    ELSE PushIf(FalsyOrNotString(Prop(Tag(th), th.primaryColor)), Err("theme.primaryColor", -1, -1))
         \o PushIf(FalsyOrNotString(Prop(Tag(th), th.font)), Err("theme.font", -1, -1))

SectionFieldEvents(sec, i, j) ==
    PushIf(BlankOrNotString(Prop(Tag(sec), sec.id)), Err("section.id", i, j))
    \o PushIf(BlankOrNotString(Prop(Tag(sec), sec.kind)), Err("section.kind", i, j))
    \o PushIf(DefinedNotString(Prop(Tag(sec), sec.variant)), Err("section.variant", i, j))
    \o PushIf(DefinedNotObject(Prop(Tag(sec), Tag(sec.content))), Err("section.content", i, j))

\* the callback of p.sections.forEach, for the section at index j of page i
SectionEvents(sec, i, j) ==
    IF ~Truthy(Tag(sec)) \/ TypeOf(Tag(sec)) # "object"
    THEN <<Err("section.object", i, j)>>
    ELSE SectionFieldEvents(sec, i, j)

RECURSIVE SectionsForEach(_, _, _)
SectionsForEach(items, i, j) ==
    IF j >= Len(items) THEN <<>>
    ELSE SectionEvents(items[j + 1], i, j) \o SectionsForEach(items, i, j + 1)

PageSectionsEvents(ss, i) ==
    IF ~Truthy(Tag(ss)) THEN <<Err("page.sections.missing", i, -1)>>
    ELSE IF ss.t # "arr" THEN <<Err("page.sections.array", i, -1)>>
    ELSE SectionsForEach(ss.items, i, 0)

\* a page callback that returns after the first violation it finds
PageEventsFirstOnly(p, i) ==
    IF ~Truthy(Tag(p)) \/ TypeOf(Tag(p)) # "object"
    THEN <<Err("page.object", i, -1)>>
    ELSE LET found == PushIf(BlankOrNotString(Prop(Tag(p), p.id)), Err("page.id", i, -1))
                      \o PushIf(BlankOrNotString(Prop(Tag(p), p.name)), Err("page.name", i, -1))
                      \o PushIf(BlankOrNotString(Prop(Tag(p), p.route)), Err("page.route", i, -1))
                      \o PageSectionsEvents(p.sections, i)
         IN IF found = <<>> THEN <<>> ELSE <<Head(found)>>

\* the callback of s.pages.forEach, for the page at index i
PageEvents(p, i) ==
    IF ~Truthy(Tag(p)) \/ TypeOf(Tag(p)) # "object"
    THEN <<Err("page.object", i, -1)>>
    ELSE PushIf(BlankOrNotString(Prop(Tag(p), p.id)), Err("page.id", i, -1))
         \o PushIf(BlankOrNotString(Prop(Tag(p), p.name)), Err("page.name", i, -1))
         \o PushIf(BlankOrNotString(Prop(Tag(p), p.route)), Err("page.route", i, -1))
         \o PageSectionsEvents(p.sections, i)

RECURSIVE PagesForEach(_, _)
PagesForEach(items, i) ==
    IF i >= Len(items) THEN <<>>
    ELSE PageEvents(items[i + 1], i) \o PagesForEach(items, i + 1)

PagesEvents(ps) ==
    IF ~Truthy(Tag(ps)) THEN <<Err("pages.missing", -1, -1)>>
    ELSE IF ps.t # "arr" THEN <<Err("pages.array", -1, -1)>>
    ELSE IF Len(ps.items) = 0 THEN <<Err("pages.empty", -1, -1)>>
    ELSE PagesForEach(ps.items, 0)

ValidateEvents(spec) ==
    PushIf(BlankOrNotString(Prop(Tag(spec), spec.name)), Err("name", -1, -1))
    \o PushIf(BlankOrNotString(Prop(Tag(spec), spec.slug)), Err("slug", -1, -1))
    \o PushIf(DefinedNotString(Prop(Tag(spec), spec.description)), Err("description", -1, -1))
    \o ArchitectureEvents(spec.architecture)
    \o ThemeEvents(spec.theme)
    \o PagesEvents(spec.pages)

\* the events up to the first throw
RECURSIVE BeforeThrow(_)
BeforeThrow(ev) == IF ev = <<>> \/ Head(ev) = ThrowEv THEN <<>>
                   ELSE <<Head(ev)>> \o BeforeThrow(Tail(ev))

Returned(valid, errors) == [threw |-> FALSE, valid |-> valid, errors |-> errors]

validate(spec) ==
    IF ~Truthy(Tag(spec)) \/ TypeOf(Tag(spec)) # "object"
    THEN Returned(FALSE, <<Err("spec", -1, -1)>>)
    ELSE LET ev == ValidateEvents(spec)
         IN IF ThrowEv \in RangeOf(ev)
            THEN [threw |-> TRUE, valid |-> FALSE, errors |-> BeforeThrow(ev)]
            ELSE Returned(Len(ev) = 0, ev)

(***************************************************************************)
(* repair (engine/specs/repair.ts).                                        *)
(***************************************************************************)
\* a character matched by the class [\s\W-]
IsSlugSeparator(c) == IsSpace(c) \/ ~IsWordChar(c) \/ c = "-"

\* .replace(/[\s\W-]+/g, "-") : every maximal run of separators becomes one hyphen
RECURSIVE CollapseSeparators(_)
CollapseSeparators(s) ==
    IF s = <<>> THEN <<>>
    ELSE IF IsSlugSeparator(Head(s))
         THEN IF Len(s) > 1 /\ IsSlugSeparator(s[2])
              THEN CollapseSeparators(Tail(s))
              ELSE <<"-">> \o CollapseSeparators(Tail(s))
         ELSE <<Head(s)>> \o CollapseSeparators(Tail(s))

RECURSIVE StripLeadingHyphens(_)
StripLeadingHyphens(s) == IF s # <<>> /\ Head(s) = "-" THEN StripLeadingHyphens(Tail(s)) ELSE s

RECURSIVE StripTrailingHyphens(_)
StripTrailingHyphens(s) == IF s # <<>> /\ s[Len(s)] = "-"
                           THEN StripTrailingHyphens(SubSeq(s, 1, Len(s) - 1)) ELSE s

\* .replace(/^-+|-+$/g, "")
StripHyphens(s) == StripTrailingHyphens(StripLeadingHyphens(s))

generateSlug(name) == StripHyphens(CollapseSeparators(toLowerCase(trim(name))))

\* the id numbered from zero
generateIdFromZero(prefix, index) == prefix \o <<"_">> \o NatToStr(index)

\* `${prefix}_${index + 1}`
generateId(prefix, index) == prefix \o <<"_">> \o NatToStr(index + 1)

\* String.prototype.split("_")
RECURSIVE SplitUnderscore(_, _)
SplitUnderscore(s, cur) ==
    IF s = <<>> THEN <<cur>>
    ELSE IF Head(s) = "_" THEN <<cur>> \o SplitUnderscore(Tail(s), <<>>)
    ELSE SplitUnderscore(Tail(s), Append(cur, Head(s)))

\* part.charAt(0).toUpperCase() + part.slice(1)
Capitalize(part) == IF part = <<>> THEN <<>> ELSE <<UpperChar(Head(part))>> \o Tail(part)

\* Array.prototype.join(" ")
RECURSIVE JoinSpace(_)
JoinSpace(parts) == IF parts = <<>> THEN <<>>
                    ELSE IF Len(parts) = 1 THEN Head(parts)
                    ELSE Head(parts) \o <<" ">> \o JoinSpace(Tail(parts))

\* pageId.split("_").map(capitalize).join(" ")
TitleFromId(pageId) ==
    LET parts == SplitUnderscore(pageId, <<>>)
    IN JoinSpace([k \in DOMAIN parts |-> Capitalize(parts[k])])

S_page == <<"p","a","g","e">>
S_sec == <<"s","e","c">>

\* a string field that is kept trimmed when usable and replaced by dflt otherwise
TrimOrDefault(v, dflt) == IF BlankOrNotString(v) = "T" THEN dflt ELSE trim(v.s)

SecResult(threw, err, out) == [threw |-> threw, err |-> err, out |-> out]

\* a section callback that fills a missing variant with "default"
RepairSectionDefaultVariant(section, pageId, i, j) ==
    IF IsNullish(Tag(section)) THEN SecResult(TRUE, "TypeError", NoSection("undef"))
    ELSE IF BlankOrNotString(section.kind) = "T"
    THEN SecResult(TRUE, "kind", NoSection("undef"))
    ELSE SecResult(FALSE, "",
                   SectionObj(Str(TrimOrDefault(section.id,
                                                generateId(S_sec \o <<"_">> \o pageId, j))),
                              Str(trim(section.kind.s)),
                              IF Truthy(section.variant) /\ TypeOf(section.variant) = "string"
                              THEN Str(trim(section.variant.s)) ELSE Str(S_default),
                              IF section.content.t = "obj" THEN section.content
                              ELSE NoContent("undef")))

\* the callback of page.sections.map, for the section at index j of page i
RepairSection(section, pageId, i, j) ==
    IF IsNullish(Tag(section)) THEN SecResult(TRUE, "TypeError", NoSection("undef"))
    ELSE LET sectionId == TrimOrDefault(section.id, generateId(S_sec \o <<"_">> \o pageId, j))
         IN IF BlankOrNotString(section.kind) = "T"
            THEN SecResult(TRUE, "kind", NoSection("undef"))
            ELSE LET kind == trim(section.kind.s)
                     variant == IF Truthy(section.variant) /\ TypeOf(section.variant) = "string"
                                THEN Str(trim(section.variant.s)) ELSE Undef
                     content == IF Truthy(Tag(section.content))
                                   /\ TypeOf(Tag(section.content)) = "object"
                                   /\ section.content.t # "null"
                                   /\ section.content.t # "arr"
                                THEN section.content ELSE NoContent("undef")
                 IN SecResult(FALSE, "",
                              SectionObj(Str(sectionId), Str(kind),
                                         IF Truthy(variant) THEN variant ELSE Undef,
                                         content))

MapResult(threw, err, pg, sc, out) ==
    [threw |-> threw, err |-> err, page |-> pg, sec |-> sc, out |-> out]

\* a map that leaves out the sections whose callback throws
RECURSIVE MapSectionsSkip(_, _, _, _, _)
MapSectionsSkip(items, pageId, i, j, acc) ==
    IF j >= Len(items) THEN MapResult(FALSE, "", -1, -1, acc)
    ELSE LET r == RepairSection(items[j + 1], pageId, i, j)
         IN MapSectionsSkip(items, pageId, i, j + 1,
                            IF r.threw THEN acc ELSE Append(acc, r.out))

\* page.sections.map(...): stops at the first callback that throws
RECURSIVE MapSections(_, _, _, _, _)
MapSections(items, pageId, i, j, acc) ==
    IF j >= Len(items) THEN MapResult(FALSE, "", -1, -1, acc)
    ELSE LET r == RepairSection(items[j + 1], pageId, i, j)
         IN IF r.threw THEN MapResult(TRUE, r.err, i, j, acc)
            ELSE MapSections(items, pageId, i, j + 1, Append(acc, r.out))

\* the callback of spec.pages.map, for the page at index i
RepairPage(page, i) ==
    IF IsNullish(Tag(page)) THEN MapResult(TRUE, "TypeError", i, -1, <<>>)
    ELSE LET pageId == TrimOrDefault(page.id, generateId(S_page, i))
             pageName == TrimOrDefault(page.name, TitleFromId(pageId))
             route == TrimOrDefault(page.route, IF i = 0 THEN <<"/">> ELSE <<"/">> \o pageId)
             secs == IF Truthy(Tag(page.sections)) /\ page.sections.t = "arr"
                     THEN MapSections(page.sections.items, pageId, i, 0, <<>>)
                     ELSE MapResult(FALSE, "", -1, -1, <<>>)
         IN IF secs.threw THEN secs
            ELSE MapResult(FALSE, "", -1, -1,
                           <<PageObj(Str(pageId), Str(pageName), Str(route), ListOf(secs.out))>>)

\* spec.pages.map(...): stops at the first callback that throws
RECURSIVE MapPages(_, _, _)
MapPages(items, i, acc) ==
    IF i >= Len(items) THEN MapResult(FALSE, "", -1, -1, acc)
    ELSE LET r == RepairPage(items[i + 1], i)
         IN IF r.threw THEN r
            ELSE MapPages(items, i + 1, acc \o r.out)

RepairThrow(err, pg, sc, done) ==
    [threw |-> TRUE, err |-> err, page |-> pg, sec |-> sc, secsDone |-> done,
     spec |-> NoSpec("undef")]

RepairReturn(spec) ==
    [threw |-> FALSE, err |-> "", page |-> -1, sec |-> -1, secsDone |-> 0, spec |-> spec]

repair(spec) ==
    IF IsNullish(Tag(spec)) THEN RepairThrow("TypeError", -1, -1, 0)
    ELSE IF ~Truthy(spec.name) \/ TypeOf(spec.name) # "string" THEN RepairThrow("name", -1, -1, 0)
    ELSE LET name == trim(spec.name.s)
         IN IF Len(name) = 0 THEN RepairThrow("name", -1, -1, 0)
            ELSE LET slug == TrimOrDefault(spec.slug, generateSlug(name))
                 IN IF ~(Truthy(Tag(spec.pages)) /\ spec.pages.t = "arr"
                         /\ Len(spec.pages.items) > 0)
                    THEN RepairThrow("pages", -1, -1, 0)
                    ELSE LET pages == MapPages(spec.pages.items, 0, <<>>)
                         IN IF pages.threw
                            THEN RepairThrow(pages.err, pages.page, pages.sec, Len(pages.out))
                            ELSE RepairReturn(SpecObj(
                                   Str(name),
                                   Str(slug),
                                   IF Truthy(spec.description) /\ TypeOf(spec.description) = "string"
                                   THEN Str(trim(spec.description.s)) ELSE Undef,
                                   IF Truthy(spec.architecture) THEN spec.architecture ELSE Undef,
                                   IF Truthy(Tag(spec.theme)) /\ TypeOf(Tag(spec.theme)) = "object"
                                      /\ spec.theme.t # "null"
                                      /\ Truthy(spec.theme.primaryColor)
                                      /\ TypeOf(spec.theme.primaryColor) = "string"
                                      /\ Truthy(spec.theme.font)
                                      /\ TypeOf(spec.theme.font) = "string"
                                   THEN ThemeObj(Str(trim(spec.theme.primaryColor.s)),
                                                 Str(trim(spec.theme.font.s)))
                                   ELSE NoTheme("undef"),
                                   ListOf(pages.out)))

(***************************************************************************)
(* Files.  A tree holds the three files the generators rewrite and the     *)
(* rest of the scaffold.  A page source is its import lines and the        *)
(* elements of its body; a layout is its font imports, its font factory    *)
(* declarations and the tokens of the root class attribute; a stylesheet   *)
(* is the declarations the theme generator looks for.                      *)
(***************************************************************************)
Oklch(l, c, h) == [l |-> l, c |-> c, h |-> h]    \* thousandths, thousandths, tenths

ClassRef(v) == [ref |-> TRUE, s |-> v]           \* ${v.variable}
ClassName(c) == [ref |-> FALSE, s |-> c]

S_Geist == <<"G","e","i","s","t">>
S_Geist_Mono == <<"G","e","i","s","t","_","M","o","n","o">>
S_geistSans == <<"g","e","i","s","t","S","a","n","s">>
S_geistMono == <<"g","e","i","s","t","M","o","n","o">>
S_geist_sans == <<"g","e","i","s","t","-","s","a","n","s">>
S_geist_mono == <<"g","e","i","s","t","-","m","o","n","o">>
S_font_sans == <<"f","o","n","t","-","s","a","n","s">>
S_antialiased == <<"a","n","t","i","a","l","i","a","s","e","d">>

FontDecl(v, f, cssVar) == [var |-> v, font |-> f, variable |-> cssVar]

\* templates/next-js/app: the files of the scaffold as installed
ScaffoldPage == [generated |-> FALSE, imports |-> <<>>, body |-> <<>>]
ScaffoldLayout == [fontImports |-> <<S_Geist, S_Geist_Mono>>,
                   fontDecls |-> <<FontDecl(S_geistSans, S_Geist, S_geist_sans),
                                   FontDecl(S_geistMono, S_Geist_Mono, S_geist_mono)>>,
                   classes |-> <<ClassRef(S_geistSans), ClassRef(S_geistMono),
                                 ClassName(S_antialiased)>>]
\* one declaration of the stylesheet: `{prop}: oklch({val});`
Decl(prop, val) == [prop |-> prop, val |-> val]

S_background == <<"-","-","b","a","c","k","g","r","o","u","n","d">>
S_primary == <<"-","-","p","r","i","m","a","r","y">>
S_primary_foreground == <<"-","-","p","r","i","m","a","r","y","-","f","o","r","e","g","r","o","u","n","d">>
S_sidebar_primary == <<"-","-","s","i","d","e","b","a","r","-","p","r","i","m","a","r","y">>
S_sidebar_primary_foreground == <<"-","-","s","i","d","e","b","a","r","-","p","r","i","m","a","r","y","-","f","o","r","e","g","r","o","u","n","d">>

\* app/globals.css: the declarations of the :root block and of the .dark
\* block, and the font that --font-sans refers to
ScaffoldCss ==
    [root |-> <<Decl(S_background, Oklch(1000, 0, 0)),
                Decl(S_primary, Oklch(205, 0, 0)),
                Decl(S_primary_foreground, Oklch(985, 0, 0)),
                Decl(S_sidebar_primary, Oklch(205, 0, 0)),
                Decl(S_sidebar_primary_foreground, Oklch(985, 0, 0))>>,
     dark |-> <<Decl(S_background, Oklch(145, 0, 0)),
                Decl(S_primary, Oklch(922, 0, 0)),
                Decl(S_primary_foreground, Oklch(205, 0, 0)),
                Decl(S_sidebar_primary, Oklch(488, 243, 2644)),
                Decl(S_sidebar_primary_foreground, Oklch(985, 0, 0))>>,
     fontSans |-> S_geist_sans]

Tree(pg, ly, cs) == [exists |-> TRUE, page |-> pg, layout |-> ly, css |-> cs, rest |-> "scaffold"]
ScaffoldTree == Tree(ScaffoldPage, ScaffoldLayout, ScaffoldCss)
NoTree == [exists |-> FALSE, page |-> ScaffoldPage, layout |-> ScaffoldLayout,
           css |-> ScaffoldCss, rest |-> "none"]

(***************************************************************************)
(* Page synthesis.  src/ holds the page generator in two versions: the one *)
(* at engine/generators/page-generator.ts (component table                 *)
(* SECTION_COMPONENT_MAP, writes into the template tree) and the one with  *)
(* the kind/variant registry SECTION_COMPONENTS (writes into the output    *)
(* directory).  `build` says which one is installed.                       *)
(***************************************************************************)
S_features == <<"f","e","a","t","u","r","e","s">>
S_pricing == <<"p","r","i","c","i","n","g">>
S_footer == <<"f","o","o","t","e","r">>

SECTION_COMPONENT_MAP ==
    (S_hero :> "Hero") @@ (S_features :> "Features") @@ (S_pricing :> "Pricing")
    @@ (S_footer :> "Footer")

SECTION_COMPONENTS ==
    (S_hero :> ((S_default :> "HeroDefault") @@ (S_split :> "HeroSplit")))
    @@ (S_features :> (S_default :> "Features"))
    @@ (S_pricing :> (S_default :> "Pricing"))
    @@ (S_footer :> (S_default :> "Footer"))

ARCHITECTURE_STRATEGIES ==
    (S_landing :> "sections") @@ (S_ecommerce :> "home") @@ (S_marketplace :> "layout")

\* the component files of the scaffold, all with a default export
TemplateComponentFiles ==
    {<<"sections", n>> : n \in {"HeroDefault", "HeroSplit", "Features", "Footer", "Pricing"}}

\* a property key: a string is its own key, any other value's key is not one
\* of the table
KeyOf(v) == IF v.t = "str" THEN v.s ELSE <<"?", v.t>>

detectExportStyle(folder, componentName) ==
    IF <<folder, componentName>> \in TemplateComponentFiles THEN "default" ELSE "named"

generateImport(componentName, folder, exportStyle) ==
    [name |-> componentName, folder |-> folder, style |-> exportStyle]

\* the string escaped for the double quote only
RECURSIVE EscapeQuotesOnly(_)
EscapeQuotesOnly(s) ==
    IF s = <<>> THEN <<>>
    ELSE (IF Head(s) = "\"" THEN <<"\\", Head(s)>> ELSE <<Head(s)>>)
         \o EscapeQuotesOnly(Tail(s))

\* value.replace(/\\/g, "\\\\").replace(/"/g, '\\"')
RECURSIVE EscapeString(_)
EscapeString(s) ==
    IF s = <<>> THEN <<>>
    ELSE (IF Head(s) \in {"\\", "\""} THEN <<"\\", Head(s)>> ELSE <<Head(s)>>)
         \o EscapeString(Tail(s))

\* the texts joined with commas
RECURSIVE JoinComma(_)
JoinComma(texts) ==
    IF texts = <<>> THEN <<>>
    ELSE IF Len(texts) = 1 THEN texts[1]
    ELSE texts[1] \o <<",">> \o JoinComma(Tail(texts))

\* JSON.stringify(value) with no indent.  For a number v.s holds its
\* digits, for an array its elements, for an object its entries.
RECURSIVE JSONStringify(_)
JSONStringify(v) ==
    CASE v.t \in {"null", "undef"} -> <<"null">>
      [] v.t = "str" -> <<"\"">> \o EscapeString(v.s) \o <<"\"">>
      [] v.t = "num0" -> <<"0">>
      [] v.t = "num" -> v.s
      [] v.t = "true" -> <<"true">>
      [] v.t = "false" -> <<"false">>
      [] v.t = "arr" ->
            <<"[">> \o JoinComma([j \in DOMAIN v.s |-> JSONStringify(v.s[j])]) \o <<"]">>
      [] v.t = "obj" ->
            LET own == SelectSeq(v.s, LAMBDA e : e.v.t # "undef")
            IN <<"{">>
               \o JoinComma([j \in DOMAIN own |->
                                <<"\"">> \o EscapeString(own[j].k) \o <<"\"", ":">>
                                \o JSONStringify(own[j].v)])
               \o <<"}">>

\* the text of a content value as a JSX attribute value; empty when omitted
serializePropValue(v) ==
    CASE v.t \in {"null", "undef"} -> <<>>
      [] v.t = "str" -> <<"\"">> \o EscapeString(v.s) \o <<"\"">>
      [] v.t = "num0" -> <<"{", "0", "}">>
      [] v.t = "num" -> <<"{">> \o v.s \o <<"}">>
      [] v.t = "true" -> <<"{", "true", "}">>
      [] v.t = "false" -> <<"{", "false", "}">>
      [] OTHER -> <<"{">> \o JSONStringify(v) \o <<"}">>

RECURSIVE contentToProps(_)
contentToProps(entries) ==
    IF entries = <<>> THEN <<>>
    ELSE LET serialized == serializePropValue(Head(entries).v)
         IN (IF serialized = <<>> THEN <<>>
             ELSE <<[k |-> Head(entries).k, v |-> serialized]>>)
            \o contentToProps(Tail(entries))

Element(componentName, content) ==
    [name |-> componentName,
     props |-> IF Truthy(Tag(content)) THEN contentToProps(content.entries) ELSE <<>>]

\* the component identifiers in the order of localeCompare
ComponentOrder == <<"Features", "Footer", "Hero", "HeroDefault", "HeroSplit", "Pricing",
                    "undefined">>

\* the imports in descending order of component name
SortImportsDescending(importSet) ==
    LET present == [k \in DOMAIN ComponentOrder |->
                       {im \in importSet : im.name = ComponentOrder[k]}]
        F[k \in 0..Len(ComponentOrder)] ==
            IF k = 0 THEN <<>>
            ELSE IF present[k] = {} THEN F[k - 1]
            ELSE <<CHOOSE im \in present[k] : TRUE>> \o F[k - 1]
    IN F[Len(ComponentOrder)]

\* Array.from(importsMap.values()).sort(by component name)
SortImports(importSet) ==
    LET present == [k \in DOMAIN ComponentOrder |->
                       {im \in importSet : im.name = ComponentOrder[k]}]
        F[k \in 0..Len(ComponentOrder)] ==
            IF k = 0 THEN <<>>
            ELSE IF present[k] = {} THEN F[k - 1]
            ELSE Append(F[k - 1], CHOOSE im \in present[k] : TRUE)
    IN F[Len(ComponentOrder)]

PageResult(threw, err, src) == [threw |-> threw, err |-> err, src |-> src]

PageSource(importSet, body) ==
    [generated |-> TRUE, imports |-> SortImports(importSet), body |-> body]

\* the sections of the last page instead
LastPageSections(spec) ==
    IF spec.pages.t # "arr" \/ Len(spec.pages.items) = 0 THEN [ok |-> FALSE, items |-> <<>>]
    ELSE LET page == spec.pages.items[Len(spec.pages.items)]
         IN IF IsNullish(Tag(page)) \/ page.sections.t # "arr"
               \/ \E j \in DOMAIN page.sections.items : IsNullish(Tag(page.sections.items[j]))
            THEN [ok |-> FALSE, items |-> <<>>]
            ELSE [ok |-> TRUE, items |-> page.sections.items]

\* pages[0].sections, or a TypeError when a step of the access chain fails
FirstPageSections(spec) ==
    IF spec.pages.t # "arr" \/ Len(spec.pages.items) = 0 THEN [ok |-> FALSE, items |-> <<>>]
    ELSE LET page == spec.pages.items[1]
         IN IF IsNullish(Tag(page)) \/ page.sections.t # "arr"
               \/ \E j \in DOMAIN page.sections.items : IsNullish(Tag(page.sections.items[j]))
            THEN [ok |-> FALSE, items |-> <<>>]
            ELSE [ok |-> TRUE, items |-> page.sections.items]

\* engine/generators/page-generator.ts
ComponentOfKind(kind) ==
    IF KeyOf(kind) \in DOMAIN SECTION_COMPONENT_MAP THEN SECTION_COMPONENT_MAP[KeyOf(kind)]
    ELSE "undefined"

generatePageFromMap(spec) ==
    LET secs == FirstPageSections(spec)
    IN IF ~secs.ok THEN PageResult(TRUE, "TypeError", ScaffoldPage)
       ELSE LET names == [j \in DOMAIN secs.items |-> ComponentOfKind(secs.items[j].kind)]
                imports == {generateImport(names[j], "sections",
                                           detectExportStyle("sections", names[j])) :
                               j \in DOMAIN names}
                body == [j \in DOMAIN secs.items |-> Element(names[j], secs.items[j].content)]
            IN PageResult(FALSE, "", PageSource(imports, body))

\* the registry version
HasComponent(kind, variant) ==
    /\ KeyOf(kind) \in DOMAIN SECTION_COMPONENTS
    /\ KeyOf(IF Truthy(variant) THEN variant ELSE Str(S_default))
          \in DOMAIN SECTION_COMPONENTS[KeyOf(kind)]

getSectionComponentName(kind, variant) ==
    IF HasComponent(kind, variant)
    THEN SECTION_COMPONENTS[KeyOf(kind)][KeyOf(IF Truthy(variant) THEN variant
                                                ELSE Str(S_default))]
    ELSE "THROW"

generatePageFromRegistry(spec) ==
    LET secs == FirstPageSections(spec)
        architecture == IF Truthy(spec.architecture) THEN spec.architecture ELSE Str(S_landing)
    IN IF ~secs.ok THEN PageResult(TRUE, "TypeError", ScaffoldPage)
       ELSE LET names == [j \in DOMAIN secs.items |->
                             getSectionComponentName(secs.items[j].kind, secs.items[j].variant)]
            IN IF names # <<>> /\ names[1] = "THROW"
               THEN PageResult(TRUE, "UnknownComponent", ScaffoldPage)
               ELSE IF names # <<>> /\ KeyOf(architecture) \notin DOMAIN ARCHITECTURE_STRATEGIES
               THEN PageResult(TRUE, "TypeError", ScaffoldPage)
               ELSE IF "THROW" \in RangeOf(names)
               THEN PageResult(TRUE, "UnknownComponent", ScaffoldPage)
               ELSE LET folder == IF names = <<>> THEN "sections"
                                  ELSE ARCHITECTURE_STRATEGIES[KeyOf(architecture)]
                        imports == {generateImport(names[j], folder,
                                                   detectExportStyle(folder, names[j])) :
                                       j \in DOMAIN names}
                        body == [j \in DOMAIN secs.items |->
                                    Element(names[j], secs.items[j].content)]
                    IN PageResult(FALSE, "", PageSource(imports, body))

\* the page generator of the installed build
generatePage(b, spec) ==
    IF b = "table" THEN generatePageFromMap(spec) ELSE generatePageFromRegistry(spec)

(***************************************************************************)
(* Theme synthesis (engine/generators/theme-generator.ts).  Both rewrites  *)
(* are applied to the files under templates/next-js.                       *)
(***************************************************************************)
\* hexToOklch, evaluated for the colours of the palette: the three numbers
\* of the returned string, as printed by toFixed(3), toFixed(3) and toFixed(1)
hexToOklch(hex) ==
    CASE hex = S_indigo -> Oklch(570, 804, 2988)
      [] hex = S_amber -> Oklch(760, 788, 727)
      [] hex = S_hex -> Oklch(138, 0, 0)
      [] hex = S_white -> Oklch(1000, 0, 0)
      [] hex = S_wine -> Oklch(184, 108, 3600)

generateForegroundColor(oklch) == Oklch(IF oklch.l < 500 THEN 985 ELSE 145, 0, 0)

Min(a, b) == IF a < b THEN a ELSE b

\* Math.min(0.923, l + 0.3), chroma and hue kept
DarkPrimary(oklch) == Oklch(Min(923, oklch.l + 300), oklch.c, oklch.h)

\* the text `{name}:` ends where the text `{prop}:` ends
EndsWith(prop, name) ==
    /\ Len(prop) >= Len(name)
    /\ SubSeq(prop, Len(prop) - Len(name) + 1, Len(prop)) = name

\* text.replace(/{name}:\s*oklch\([^)]+\);/g, `{name}: {value};`) on a
\* sequence of declarations
ReplaceDeclarations(name, value, decls) ==
    [j \in DOMAIN decls |->
        IF EndsWith(decls[j].prop, name) THEN Decl(decls[j].prop, value) ELSE decls[j]]

\* the rewrite without the pass over the .dark block
updateGlobalsCssWholeFileOnly(primaryColor, css) ==
    LET primaryOklch == hexToOklch(primaryColor)
        primaryForegroundOklch == generateForegroundColor(primaryOklch)
        wholeFile(decls) ==
            ReplaceDeclarations(S_primary_foreground, primaryForegroundOklch,
                                ReplaceDeclarations(S_primary, primaryOklch, decls))
    IN [css EXCEPT !.root = wholeFile(@), !.dark = wholeFile(@)]

\* both replacements over the whole file with the light values, then both
\* over the text of the .dark block with the dark values
updateGlobalsCss(primaryColor, css) ==
    LET primaryOklch == hexToOklch(primaryColor)
        primaryForegroundOklch == generateForegroundColor(primaryOklch)
        darkPrimaryOklch == DarkPrimary(primaryOklch)
        darkPrimaryForegroundOklch == generateForegroundColor(darkPrimaryOklch)
        wholeFile(decls) ==
            ReplaceDeclarations(S_primary_foreground, primaryForegroundOklch,
                                ReplaceDeclarations(S_primary, primaryOklch, decls))
        darkSection(decls) ==
            ReplaceDeclarations(S_primary_foreground, darkPrimaryForegroundOklch,
                                ReplaceDeclarations(S_primary, darkPrimaryOklch, decls))
    IN [css EXCEPT !.root = wholeFile(@), !.dark = darkSection(wholeFile(@))]

\* fontName.replace(/_/g, "-").replace(/\s+/g, "-").toLowerCase()
RECURSIVE KebabCase(_)
KebabCase(s) ==
    IF s = <<>> THEN <<>>
    ELSE IF Head(s) = "_" THEN <<"-">> \o KebabCase(Tail(s))
    ELSE IF IsSpace(Head(s))
         THEN IF Len(s) > 1 /\ IsSpace(s[2]) THEN KebabCase(Tail(s))
              ELSE <<"-">> \o KebabCase(Tail(s))
    ELSE <<LowerChar(Head(s))>> \o KebabCase(Tail(s))

\* fontName.split(/[_\s]+/), each part lowered, all but the first capitalised
RECURSIVE CamelCase(_, _)
CamelCase(s, upperNext) ==
    IF s = <<>> THEN <<>>
    ELSE IF Head(s) = "_" \/ IsSpace(Head(s)) THEN CamelCase(Tail(s), TRUE)
    ELSE <<IF upperNext THEN UpperChar(Head(s)) ELSE LowerChar(Head(s))>>
         \o CamelCase(Tail(s), FALSE)

\* the text matches \w+
IsWord(text) == text # <<>> /\ \A k \in DOMAIN text : IsWordChar(text[k])

\* `const {var} = {font}({...});` matches
\* /const\s+\w+\s*=\s*\w+\([\s\S]*?\)\s*;\s*\n/ ; every declaration of a font
\* has the keys variable: and subsets:
MatchesFontDeclaration(decl) == IsWord(decl.var) /\ IsWord(decl.font)
SurvivesRemoval(decl) == ~MatchesFontDeclaration(decl)

\* every import from next/font/google is removed and one is inserted; the
\* declarations the pattern matches are removed and the new one is put
\* before `export const metadata`, after those that are left; the class
\* attribute is rebuilt
updateLayout(fontName, layout) ==
    LET fontVariable == KebabCase(fontName)
        fontVarName == CamelCase(fontName, FALSE)
        cleaned == SelectSeq(layout.classes,
                             LAMBDA c : ~c.ref /\ c.s \notin {S_font_sans, S_antialiased})
    IN [fontImports |-> <<fontName>>,
        fontDecls |-> SelectSeq(layout.fontDecls, SurvivesRemoval)
                      \o <<FontDecl(fontVarName, fontName, fontVariable)>>,
        classes |-> <<ClassRef(fontVarName), ClassName(S_font_sans)>> \o cleaned
                    \o <<ClassName(S_antialiased)>>]

ThemeResult(threw, tree) == [threw |-> threw, tree |-> tree]

\* generate(spec): the stylesheet, then the layout with its mirror in the
\* stylesheet; a throw leaves what was written before it
generateTheme(spec, tpl) ==
    IF IsNullish(Tag(spec.theme)) \/ spec.theme.primaryColor.t # "str"
    THEN ThemeResult(TRUE, tpl)
    ELSE LET withColor == [tpl EXCEPT !.css = updateGlobalsCss(spec.theme.primaryColor.s, @)]
         IN IF spec.theme.font.t # "str" THEN ThemeResult(TRUE, withColor)
            ELSE ThemeResult(FALSE,
                    [withColor EXCEPT !.layout = updateLayout(spec.theme.font.s, @),
                                      !.css.fontSans = KebabCase(spec.theme.font.s)])

(***************************************************************************)
(* The orchestrator (engine/generators/project-generator.ts), the scaffold *)
(* copier and the archive packager.                                        *)
(***************************************************************************)
\* copyDir(srcDir, destDir): every file of the source, over what is there
copyDir(src, dest) == [src EXCEPT !.exists = TRUE]

\* project.name.toString()
ToStringOf(v) == IF v.t = "true" THEN <<"t","r","u","e">> ELSE v.s

\* the slug computed at lines 46-51 when project.slug is missing
projectSlug(name) == StripHyphens(CollapseSeparators(toLowerCase(trim(ToStringOf(name)))))

\* project.slug as lines 38-52 leave it, for a project that passes the checks
resolveProjectSlug(project) ==
    IF Truthy(project.slug) THEN project.slug.s ELSE projectSlug(project.name)

\* the outcome of the synchronous part of generate(spec): the error thrown
\* ("" when the archive was begun), the steps completed, the slug in use and
\* the two trees as they are left
Outcome(err, steps, slug, tpl, dest, wrotePage) ==
    [err |-> err, steps |-> steps, slug |-> slug, templates |-> tpl, dest |-> dest,
     wrotePage |-> wrotePage]

generateProject(b, spec, tpl, out) ==
    LET project == spec.project
    IN IF ~Truthy(Tag(project)) THEN Outcome("project", <<>>, <<>>, tpl, NoTree, "none")
       ELSE IF ~Truthy(project.slug) /\ ~Truthy(project.name)
       THEN Outcome("identity", <<>>, <<>>, tpl, NoTree, "none")
       ELSE IF Truthy(project.slug) /\ project.slug.t # "str"
       THEN Outcome("TypeError", <<>>, <<>>, tpl, NoTree, "none")
       ELSE
       LET slug == resolveProjectSlug(project)
           before == IF slug \in DOMAIN out THEN out[slug] ELSE NoTree
           copied == copyDir(tpl, before)
           pg == generatePage(b, spec)
       IN IF pg.threw THEN Outcome(pg.err, <<"copy">>, slug, tpl, copied, "none")
          ELSE
          LET tpl1 == IF b = "table" THEN [tpl EXCEPT !.page = pg.src] ELSE tpl
              dest1 == IF b = "table" THEN copied ELSE [copied EXCEPT !.page = pg.src]
              wrote == IF b = "table" THEN "templates" ELSE "output"
              th == generateTheme(spec, tpl1)
          IN IF th.threw
             THEN Outcome("TypeError", <<"copy", "page">>, slug, th.tree, dest1, wrote)
             ELSE Outcome("", <<"copy", "page", "theme">>, slug, th.tree, dest1, wrote)

(***************************************************************************)
(* Bounded space of candidate specs handed to validate and repair.         *)
(***************************************************************************)
NameAlphabet == {"a", "B", " ", "-", "_"}
NameStrings == SeqsUpTo(NameAlphabet, MaxStrLen) \cup {S_MyCoolSite, S_Demo}
SlugValues == {Undef, Str(<<>>), Str(S_blank), Str(S_a), Str(Padded(S_a)),
               Str(<<"a","-","-","b">>), Str(S_My_S),
               Str(<<".",".","/","x">>), Str(S_my_cool_site)}

ContentValues == {NoContent("undef"), NoContent("null"), NoContent("arr"), NoContent("str"),
                  NoContent("num"), ContentObj(<<>>),
                  ContentObj(<<[k |-> S_title, v |-> Str(S_T)]>>)}

SectionsLite == {NoSection("null")} \cup
    {SectionObj(i, k, Undef, NoContent("undef")) :
        i \in {Undef, Str(S_s1), Str(S_sec_home_2)}, k \in {Undef, Str(S_hero)}}

SectionsFull == {NoSection("null"), NoSection("num")} \cup
    {SectionObj(i, k, v, c) :
        i \in {Undef, Str(S_s1), Str(Padded(S_s1))},
        k \in {Undef, Num, Str(S_blank), Str(S_hero), Str(Padded(S_hero))},
        v \in {Undef, Str(<<>>), Str(S_blank), Str(S_split), Str(Padded(S_split)), Num},
        c \in ContentValues}

SectionLists == {NoList("undef"), NoList("obj")} \cup {ListOf(xs) : xs \in SeqsUpTo(SectionsLite, MaxSecs)}

PagesLite == {NoPage("null")} \cup
    {PageObj(i, Undef, Undef, ss) :
        i \in {Undef, Str(S_home), Str(S_page_2)},
        ss \in {NoList("undef"),
                ListOf(<<SectionObj(Undef, Str(S_hero), Undef, NoContent("undef"))>>),
                ListOf(<<SectionObj(Str(S_s1), Undef, Undef, NoContent("undef"))>>)}}

\* one page: every page field varied over a missing, an ill-typed and an
\* empty sections array, and every bounded section list under a page with and
\* without an id
PageFieldInputs ==
    {ListOf(<<PageObj(i, n, r, ss)>>) :
        i \in {Undef, Str(S_home), Str(Padded(S_home)), Str(S_blank)},
        n \in {Undef, Str(S_Home), Num},
        r \in {Undef, Str(S_slash), Str(Padded(S_slash))},
        ss \in {NoList("undef"), NoList("obj"), ListOf(<<>>)}}
    \cup
    {ListOf(<<PageObj(i, Str(S_Home), Str(S_slash), ss)>>) :
        i \in {Undef, Str(S_home)}, ss \in SectionLists}

\* one page, one section, every section field varied
SectionFieldInputs ==
    {ListOf(<<PageObj(i, Str(S_Home), Str(S_slash), ListOf(<<sc>>))>>) :
        i \in {Undef, Str(S_home)}, sc \in SectionsFull}

\* several pages
PageListInputs == {NoList("undef"), NoList("null"), NoList("obj")} \cup
    {ListOf(xs) : xs \in SeqsUpTo(PagesLite, MaxPages)}

ValidPages == ListOf(<<PageObj(Str(S_home), Str(S_Home), Str(S_slash),
                               ListOf(<<SectionObj(Str(S_s1), Str(S_hero), Undef,
                                                   NoContent("undef"))>>))>>)

ThemeValues == {NoTheme("undef"), NoTheme("null"), NoTheme("num"), NoTheme("arr")} \cup
    {ThemeObj(c, f) : c \in {Undef, Num, Str(S_hex), Str(Padded(S_hex)), Str(S_blank)},
                      f \in {Undef, Str(S_Inter), Str(<<>>)}}

\* the top-level fields varied
TopFieldInputs ==
    {SpecObj(n, sl, d, a, NoTheme("undef"), ps) :
        n \in {Undef, Null, Num, Str(<<>>), Str(S_blank), Str(S_a), Str(S_pad_a)},
        sl \in {Undef, Num, Str(S_blank), Str(S_a), Str(S_pad_a)},
        d \in {Undef, Num, Str(<<>>), Str(S_pad_a)},
        a \in {Undef, Null, Num, Str(S_landing), Str(S_blog), Str(<<>>)},
        ps \in {ValidPages, NoList("undef"), ListOf(<<>>)}}

ThemeInputs ==
    {SpecObj(n, Str(S_a), Undef, Undef, th, ps) :
        n \in {Undef, Str(S_a)}, th \in ThemeValues,
        ps \in {ValidPages, NoList("obj"), ListOf(<<NoPage("null")>>)}}

NameInputs ==
    {SpecObj(Str(n), sl, Undef, Str(S_landing), NoTheme("undef"), ValidPages) :
        n \in NameStrings, sl \in SlugValues}

PagesInputs ==
    {SpecObj(n, sl, d, Undef, NoTheme("undef"), ps) :
        n \in {Str(S_Demo)}, sl \in {Undef, Str(S_a)}, d \in {Undef, Num},
        ps \in PageFieldInputs \cup SectionFieldInputs \cup PageListInputs}

NonObjectInputs == {NoSpec(tag) : tag \in {"undef", "null", "num0", "num", "str",
                                           "true", "false", "arr"}}

InputSpecs == NonObjectInputs \cup TopFieldInputs \cup ThemeInputs
              \cup NameInputs \cup PagesInputs

(***************************************************************************)
(* Specification of validation and repair: a candidate spec arrives from   *)
(* the untrusted collaborator, is validated and then repaired.             *)
(***************************************************************************)
NoValidation == [threw |-> FALSE, valid |-> FALSE, errors |-> <<>>]
NoRepair == RepairReturn(NoSpec("undef"))

IdleRun == [pc |-> "idle", spec |-> NoSpec("undef"), slug |-> <<>>, err |-> "",
            steps |-> <<>>, wrotePage |-> "none", page |-> ScaffoldPage, after |-> {},
            snapshot |-> NoTree, result |-> NoTree]

NoZip == [complete |-> FALSE, torn |-> FALSE, writers |-> {}, tree |-> NoTree]

\* a request not yet received
IdlePost == [pc |-> "idle", collab |-> "none", spec |-> NoSpec("undef"), status |-> 0,
             error |-> "", details |-> "", slug |-> <<>>, data |-> NoZip]

\* a fresh installation on which nothing has been generated
FreshInstall == /\ templates = ScaffoldTree
                /\ output = <<>>
                /\ zips = <<>>
                /\ run = [r \in 1..MaxRuns |-> IdleRun]
                /\ post = [k \in 1..MaxRuns |-> IdlePost]

Init == /\ input \in InputSpecs
        /\ vres = NoValidation
        /\ rres = NoRepair
        /\ pc = "received"
        /\ build = "registry"
        /\ FreshInstall

Validate == /\ pc = "received"
            /\ vres' = validate(input)
            /\ pc' = "validated"
            /\ UNCHANGED <<input, rres>>
            /\ UNCHANGED genVars

Repair == /\ pc = "validated"
          /\ rres' = repair(input)
          /\ pc' = "repaired"
          /\ UNCHANGED <<input, vres>>
          /\ UNCHANGED genVars

Next == Validate \/ Repair

Spec == Init /\ [][Next]_vars

(***************************************************************************)
(* Specification of project generation: generate(spec) is called up to     *)
(* MaxRuns times on one installation.  Everything up to the start of the   *)
(* archive is synchronous and is one step; the archive reads the files of  *)
(* the destination and closes in later turns of the event loop, so other   *)
(* calls may run in between.                                               *)
(***************************************************************************)
HeroSplitTS == SectionObj(Undef, Str(S_hero), Str(S_split),
                          ContentObj(<<[k |-> S_title, v |-> Str(S_T)],
                                       [k |-> S_subtitle, v |-> Str(S_S)]>>))
HeroPlain == SectionObj(Undef, Str(S_hero), Undef, NoContent("undef"))
HeroWide == SectionObj(Undef, Str(S_hero), Str(S_wide), NoContent("undef"))
FeaturesPlain == SectionObj(Undef, Str(S_features), Undef, ContentObj(<<>>))
Carousel == SectionObj(Undef, Str(S_carousel), Undef, NoContent("undef"))

S_tagline == <<"t","a","g","l","i","n","e">>
S_badge == <<"b","a","d","g","e">>
S_count == <<"c","o","u","n","t">>
S_dark == <<"d","a","r","k">>
S_items == <<"i","t","e","m","s">>
S_cta == <<"c","t","a">>
S_quoted == <<"a","\"","\\">>

\* content: {title: 'a"\\', tagline: "", badge: null, count: 42, dark: true,
\*           items: ["T", 0, null], cta: {title: "S"}}
FeaturesRich ==
    SectionObj(Undef, Str(S_features), Undef,
               ContentObj(<<[k |-> S_title, v |-> Str(S_quoted)],
                            [k |-> S_tagline, v |-> Str(<<>>)],
                            [k |-> S_badge, v |-> Null],
                            [k |-> S_count, v |-> [t |-> "num", s |-> <<"4","2">>]],
                            [k |-> S_dark, v |-> BoolT],
                            [k |-> S_items, v |-> [t |-> "arr", s |-> <<Str(S_T), Zero, Null>>]],
                            [k |-> S_cta,
                             v |-> [t |-> "obj", s |-> <<[k |-> S_title, v |-> Str(S_S)]>>]]>>))

OnePage(secs) == ListOf(<<PageObj(Undef, Undef, Str(S_slash), ListOf(secs))>>)

IndigoInter == ThemeObj(Str(S_indigo), Str(S_Inter))
AmberRoboto == ThemeObj(Str(S_amber), Str(S_Roboto_Mono))

DemoProject == ProjectObj(Str(S_Demo), Undef)

\* {project:{name:"Demo"}, pages:[{route:"/", sections:[{kind:"hero",
\*  variant:"split", content:{title:"T", subtitle:"S"}}]}]}
DemoSpec == ProjectSpec(DemoProject, Undef, NoTheme("undef"), OnePage(<<HeroSplitTS>>))

GenSpecs ==
    {DemoSpec,
     ProjectSpec(DemoProject, Undef, IndigoInter, OnePage(<<HeroSplitTS>>)),
     ProjectSpec(ProjectObj(Str(S_Demo), Str(S_demo)), Str(S_landing),
                 ThemeObj(Str(S_wine), Str(S_Roboto_Mono_spaced)),
                 ListOf(<<PageObj(Undef, Undef, Str(S_slash),
                                  ListOf(<<HeroPlain, FeaturesPlain, HeroSplitTS, HeroPlain>>)),
                          PageObj(Str(S_blog), Undef, Undef, ListOf(<<Carousel>>))>>)),
     ProjectSpec(ProjectObj(Str(S_MyCoolSite), Undef), Undef, AmberRoboto,
                 OnePage(<<FeaturesRich, HeroPlain>>)),
     ProjectSpec(DemoProject, Undef, IndigoInter, OnePage(<<Carousel>>)),
     ProjectSpec(DemoProject, Undef, IndigoInter, OnePage(<<HeroWide>>)),
     ProjectSpec(NoProject("undef"), Undef, IndigoInter, OnePage(<<HeroSplitTS>>)),
     ProjectSpec(ProjectObj(Undef, Undef), Undef, IndigoInter, OnePage(<<HeroSplitTS>>)),
     ProjectSpec(DemoProject, Undef, ThemeObj(Str(S_white), Undef),
                 OnePage(<<HeroSplitTS>>)),
     ProjectSpec(ProjectObj(Str(S_Demo), Str(S_demo_zip)), Undef,
                 ThemeObj(Str(S_hex), Str(S_Inter)), OnePage(<<HeroPlain>>))}

Builds == {"table", "registry"}

GenInit == /\ input = NoSpec("undef")
           /\ vres = NoValidation
           /\ rres = NoRepair
           /\ pc = "generating"
           /\ build \in Builds
           /\ FreshInstall

Finished(r) == run[r].pc \in {"done", "failed"}

\* generate has settled for a request and the handler has not yet run on
Settled(k) == post[k].pc = "awaiting" /\ Finished(k)

\* no continuation of an await is due: a continuation runs before any other
\* callback of the event loop
NoneSettled == \A q \in 1..MaxRuns : ~Settled(q)

\* the archive of run r has its write stream open
StreamOpen(r) == \E sl \in DOMAIN zips : r \in zips[sl].writers

\* output/{slug} is the path of an archive file written by an earlier run
DestIsFile(slug) == \E z \in DOMAIN zips : slug = z \o S_dot_zip

\* output/{slug}.zip is the path of a directory made by an earlier run
ZipPathIsDirectory(slug) == (slug \o S_dot_zip) \in DOMAIN output

\* generate(spec) up to the return of its promise, as call number r
Generate(r, s) ==
    /\ run[r].pc = "idle"
    /\ \E o \in {generateProject(build, s, templates, output)} :
       LET zip == IF o.slug \in DOMAIN zips THEN zips[o.slug] ELSE NoZip
       IN /\ o.steps # <<>> => ~DestIsFile(o.slug)
          /\ templates' = o.templates
          /\ output' = IF o.dest.exists THEN (o.slug :> o.dest) @@ output ELSE output
          /\ zips' = IF o.err = "" /\ ~ZipPathIsDirectory(o.slug)
                     THEN (o.slug :> [complete |-> FALSE, torn |-> zip.writers # {},
                                      writers |-> zip.writers \cup {r}, tree |-> NoTree])
                          @@ zips
                     ELSE zips
          /\ run' = [run EXCEPT ![r] =
                        [pc |-> IF o.err = "" THEN "archiving" ELSE "failed",
                         spec |-> s, slug |-> o.slug, err |-> o.err, steps |-> o.steps,
                         wrotePage |-> o.wrotePage,
                         page |-> IF o.wrotePage = "templates" THEN o.templates.page
                                  ELSE IF o.wrotePage = "output" THEN o.dest.page
                                  ELSE ScaffoldPage,
                         after |-> {q \in 1..MaxRuns : Finished(q)},
                         snapshot |-> NoTree, result |-> NoTree]]
    /\ UNCHANGED <<specVars, build>>

\* a call of generate(spec) that waits until no archive is being written
StartGenerateExclusive(r, s) ==
    /\ \A q \in 1..(r - 1) : run[q].pc # "idle"
    /\ \A q \in 1..MaxRuns : ~StreamOpen(q)
    /\ Generate(r, s)
    /\ UNCHANGED post

\* a direct call of generate(spec)
StartGenerate(r, s) ==
    /\ \A q \in 1..(r - 1) : run[q].pc # "idle"
    /\ Generate(r, s)
    /\ UNCHANGED post

\* generate(spec) when output/{slug} is an existing file: mkdirSync throws in
\* copyDir and the call rejects with nothing copied
GenerateCopyFails(r, s) ==
    /\ run[r].pc = "idle"
    /\ \E o \in {generateProject(build, s, templates, output)} :
          /\ o.steps # <<>>
          /\ DestIsFile(o.slug)
          /\ run' = [run EXCEPT ![r] =
                        [IdleRun EXCEPT !.pc = "failed", !.spec = s, !.slug = o.slug,
                                        !.err = "copy",
                                        !.after = {q \in 1..MaxRuns : Finished(q)}]]
    /\ UNCHANGED <<specVars, build, templates, output, zips>>

StartGenerateCopyFails(r, s) ==
    /\ \A q \in 1..(r - 1) : run[q].pc # "idle"
    /\ GenerateCopyFails(r, s)
    /\ UNCHANGED post

\* the archiver reads the files it was given
ArchiveAppend(r) ==
    /\ run[r].pc = "archiving"
    /\ NoneSettled
    /\ StreamOpen(r)
    /\ run' = [run EXCEPT ![r].pc = "finalizing", ![r].snapshot = output[run[r].slug],
                          ![r].steps = Append(@, "archive")]
    /\ UNCHANGED <<specVars, build, templates, output, zips, post>>

\* the promise resolves while the output stream is still open
ArchiveCloseStreamOpen(r) ==
    /\ run[r].pc = "finalizing"
    /\ NoneSettled
    /\ run' = [run EXCEPT ![r].pc = "done", ![r].result = output[run[r].slug]]
    /\ UNCHANGED <<specVars, build, templates, output, zips, post>>

\* the output stream closes and the promise resolves
ArchiveClose(r) ==
    /\ run[r].pc = "finalizing"
    /\ NoneSettled
    /\ LET zip == zips[run[r].slug]
       IN zips' = [zips EXCEPT ![run[r].slug] =
                      [complete |-> zip.writers = {r}, torn |-> zip.torn,
                       writers |-> zip.writers \ {r},
                       tree |-> IF zip.torn THEN NoTree ELSE run[r].snapshot]]
    /\ run' = [run EXCEPT ![r].pc = "done", ![r].result = output[run[r].slug]]
    /\ UNCHANGED <<specVars, build, templates, output, post>>

\* the archiver emits "error" (a queued file cannot be read): the promise is
\* rejected; nothing closes the write stream
ArchiveError(r) ==
    /\ run[r].pc = "archiving"
    /\ NoneSettled
    /\ StreamOpen(r)
    /\ run' = [run EXCEPT ![r].pc = "failed", ![r].err = "archive"]
    /\ UNCHANGED <<specVars, build, templates, output, zips, post>>

\* output/{slug}.zip cannot be opened because it is a directory: the write
\* stream emits "error", for which no listener is registered, and the promise
\* is neither resolved nor rejected
StreamError(r) ==
    /\ run[r].pc = "archiving"
    /\ NoneSettled
    /\ ~StreamOpen(r)
    /\ run' = [run EXCEPT ![r].pc = "pending", ![r].err = "stream"]
    /\ UNCHANGED <<specVars, build, templates, output, zips, post>>

GenNext == \E r \in 1..MaxRuns :
              \/ \E s \in GenSpecs : StartGenerate(r, s)
              \/ \E s \in GenSpecs : StartGenerateCopyFails(r, s)
              \/ ArchiveAppend(r)
              \/ ArchiveClose(r)
              \/ ArchiveError(r)
              \/ StreamError(r)

SpecGen == GenInit /\ [][GenNext]_vars

(***************************************************************************)
(* The request handler POST /api/generate (app/api/generate/route.ts) and  *)
(* the client of the model server (promptToSpec).  Request k of an         *)
(* installation uses call k of generate.  The handler has no effect on the *)
(* file system before it calls generate, so everything up to the return of *)
(* generate's promise is one step; the response is a later step.           *)
(***************************************************************************)
\* the body of a request: not JSON, the JSON value null, a number, or an
\* object with the given value under `prompt`
Bodies ==
    {[t |-> b, prompt |-> Undef] : b \in {"malformed", "null", "num"}}
    \cup {[t |-> "obj", prompt |-> v] :
             v \in {Undef, Num, Str(<<>>), Str(<<" ", " ">>), Str(<<"p">>)}}

\* a Spec as the model server words it: identity at the top level, and the
\* `project` the orchestrator reads
SiteSpec(n, sl, pr, ps) ==
    [ProjectSpec(pr, Undef, IndigoInter, ps) EXCEPT !.name = n, !.slug = sl]

GoodSpec == SiteSpec(Str(S_Demo), Str(S_demo), ProjectObj(Str(S_Demo), Str(S_demo)),
                     OnePage(<<HeroSplitTS>>))

PostSpecs ==
    {GoodSpec,
     SiteSpec(Str(S_Demo), Str(S_demo), ProjectObj(Str(S_Demo), Str(S_blog)),
              OnePage(<<HeroPlain>>)),
     SiteSpec(Str(S_Demo), Str(S_demo_zip), ProjectObj(Str(S_Demo), Str(S_demo_zip)),
              OnePage(<<HeroPlain>>)),
     SiteSpec(Str(S_MyCoolSite), Undef, NoProject("undef"), OnePage(<<HeroSplitTS>>)),
     SiteSpec(Undef, Undef, DemoProject, OnePage(<<HeroSplitTS>>)),
     SiteSpec(Str(S_Demo), Str(S_demo), DemoProject, NoList("undef"))}

\* text that is not JSON
Garbage == NoSpec("garbage")

\* how a JSON document comes wrapped in the text of an answer: as it is, in a
\* Markdown fence, with commentary around it, with commentary that holds a
\* brace before it
Wraps == {"plain", "fenced", "chatter", "braces"}

\* what the model server answers: no answer in time, no connection, a status
\* that is not OK, a body that is not JSON, the JSON value null, an object
\* whose `response` is an object, a JSON string, an object whose `response`
\* is a string, or the Spec itself
Replies ==
    {[t |-> x, wrap |-> "plain", doc |-> NoSpec("undef")] :
        x \in {"abort", "refused", "status", "badjson", "null", "wrappedObj"}}
    \cup {[t |-> "text", wrap |-> w, doc |-> d] :
             w \in Wraps, d \in {GoodSpec, Garbage, NoSpec("null")}}
    \cup {[t |-> "wrapped", wrap |-> "plain", doc |-> d] :
             d \in PostSpecs \cup {Garbage, NoSpec("null")}}
    \cup {[t |-> "object", wrap |-> "plain", doc |-> d] : d \in PostSpecs}

\* lines 105-118: fences stripped, the first "{" to the last "}" isolated,
\* JSON.parse
ParseText(wrap, doc) ==
    IF doc.t = "garbage" \/ wrap = "braces" \/ (wrap = "chatter" /\ doc.t # "obj")
    THEN [ok |-> FALSE, value |-> NoSpec("undef")]
    ELSE [ok |-> TRUE, value |-> doc]

\* lines 87-94 and 128-135
backfillSlug(spec) ==
    IF ~Truthy(spec.slug) /\ Truthy(spec.name)
    THEN [spec EXCEPT !.slug = Str(projectSlug(spec.name))]
    ELSE spec

SpecResult(msg, spec) == [threw |-> msg # "", msg |-> msg, spec |-> spec]

promptToSpec(reply) ==
    CASE reply.t = "abort" -> SpecResult("timeout", NoSpec("undef"))
      [] reply.t = "refused" -> SpecResult("connect", NoSpec("undef"))
      [] reply.t = "status" -> SpecResult("api", NoSpec("undef"))
      [] reply.t = "badjson" -> SpecResult("parse", NoSpec("undef"))
      [] reply.t = "null" -> SpecResult("TypeError", NoSpec("undef"))
      [] reply.t = "wrappedObj" -> SpecResult("unexpected", NoSpec("undef"))
      [] reply.t = "unasked" -> SpecResult("unasked", NoSpec("undef"))
      [] reply.t = "object" ->
            IF Truthy(Tag(reply.doc.pages)) /\ reply.doc.pages.t = "arr"
            THEN SpecResult("", backfillSlug(reply.doc))
            ELSE SpecResult("format", NoSpec("undef"))
      [] OTHER ->
            LET parsed == ParseText(reply.wrap, reply.doc)
                spec == parsed.value
            IN IF ~parsed.ok THEN SpecResult("parse", NoSpec("undef"))
               ELSE IF IsNullish(Tag(spec)) THEN SpecResult("TypeError", NoSpec("undef"))
               ELSE IF ~Truthy(Tag(spec.pages)) \/ spec.pages.t # "arr"
                       \/ Len(spec.pages.items) = 0
               THEN SpecResult("pages", NoSpec("undef"))
               ELSE SpecResult("", backfillSlug(spec))

\* the prompt passes the check of line 25
PromptOk(body) ==
    /\ body.t \notin {"malformed", "null"}
    /\ Truthy(body.prompt) /\ TypeOf(body.prompt) = "string"
    /\ Len(trim(body.prompt.s)) # 0

\* the model server is asked only for a prompt that passed
NoReply == [t |-> "unasked", wrap |-> "plain", doc |-> NoSpec("undef")]
RepliesTo(body) == IF PromptOk(body) THEN Replies ELSE {NoReply}

\* the answer of the model server carries a Spec: a JSON object with pages
Delivers(reply) ==
    /\ reply.t \in {"text", "wrapped", "object"}
    /\ reply.doc.t = "obj"
    /\ reply.doc.pages.t = "arr"

\* every response has status 200
ResponseAlwaysOk(collab, status, error, details) ==
    [IdlePost EXCEPT !.pc = "responded", !.collab = collab, !.status = 200,
                     !.error = error, !.details = details]

\* NextResponse.json(...); collab records whether the model server was asked
\* and whether it delivered
Response(collab, status, error, details) ==
    [IdlePost EXCEPT !.pc = "responded", !.collab = collab, !.status = status,
                     !.error = error, !.details = details]

\* POST(request) up to the first response, or to the call of generate
POST(k, body, reply) ==
    /\ post[k].pc = "idle"
    /\ NoneSettled
    /\ \A q \in 1..(k - 1) : post[q].pc # "idle"
    /\ post' = [post EXCEPT ![k] =
                   LET got == promptToSpec(reply)
                       collab == IF Delivers(reply) THEN "ok" ELSE "failed"
                   IN IF body.t \in {"malformed", "null"}
                      THEN [IdlePost EXCEPT !.pc = "threw"]
                      ELSE IF ~PromptOk(body) THEN Response("none", 400, "prompt", "")
                      ELSE IF got.threw THEN Response(collab, 500, "spec", got.msg)
                      ELSE IF ~Truthy(got.spec.name) \/ ~Truthy(got.spec.slug)
                      THEN Response(collab, 500, "meta", "")
                      ELSE [IdlePost EXCEPT !.pc = "calling", !.collab = collab,
                                            !.spec = got.spec, !.slug = got.spec.slug.s]]
    /\ UNCHANGED <<specVars, build, templates, output, zips, run>>

\* await generate(spec): the synchronous part of generate
POSTGenerate(k) ==
    /\ post[k].pc = "calling"
    /\ NoneSettled
    /\ Generate(k, post[k].spec)
    /\ post' = [post EXCEPT ![k].pc = "awaiting"]

\* await generate(spec) when copyDir throws
POSTGenerateCopyFails(k) ==
    /\ post[k].pc = "calling"
    /\ NoneSettled
    /\ GenerateCopyFails(k, post[k].spec)
    /\ post' = [post EXCEPT ![k].pc = "awaiting"]

\* POST(request) after generate has settled
POSTRespond(k) ==
    /\ Settled(k)
    /\ post' = [post EXCEPT ![k] =
                   IF run[k].pc = "failed"
                   THEN [Response(post[k].collab, 500, "project", run[k].err) EXCEPT !.slug = post[k].slug]
                   ELSE IF post[k].slug \in DOMAIN zips
                   THEN [Response(post[k].collab, 200, "", "") EXCEPT !.slug = post[k].slug,
                                                          !.data = zips[post[k].slug]]
                   ELSE IF ZipPathIsDirectory(post[k].slug)
                   THEN [IdlePost EXCEPT !.pc = "threw", !.collab = post[k].collab, !.slug = post[k].slug]
                   ELSE [Response(post[k].collab, 500, "zip", "") EXCEPT !.slug = post[k].slug]]
    /\ UNCHANGED <<specVars, build, templates, output, zips, run>>

PostInit == /\ input = NoSpec("undef")
            /\ vres = NoValidation
            /\ rres = NoRepair
            /\ pc = "serving"
            /\ build = "registry"
            /\ FreshInstall

PostNext == \E k \in 1..MaxRuns :
               \/ \E body \in Bodies : \E reply \in RepliesTo(body) : POST(k, body, reply)
               \/ ArchiveAppend(k)
               \/ ArchiveClose(k)
               \/ ArchiveError(k)
               \/ StreamError(k)
               \/ POSTGenerate(k)
               \/ POSTGenerateCopyFails(k)
               \/ POSTRespond(k)

SpecPost == PostInit /\ [][PostNext]_vars

(***************************************************************************)
(* Properties of validate.                                                 *)
(***************************************************************************)
Validated == pc \in {"validated", "repaired"}
Repaired == pc = "repaired"

\* C1: validate never throws: for every input value, whatever the types of
\* its fields, pages and sections, a call returns a result {valid, errors}
\* (a boolean and a list of violations) and leaves its input as it was.
C1_ValidateNeverThrows ==
    [][(pc = "received" /\ pc' = "validated") =>
          /\ ~vres'.threw
          /\ vres'.valid \in BOOLEAN
          /\ \A k \in DOMAIN vres'.errors : vres'.errors[k].rule # "THROW"
          /\ input' = input]_vars

\* validate has run on a spec whose pages or sections hold a null entry
C1_Witness ==
    /\ pc = "validated"
    /\ input.t = "obj"
    /\ input.pages.t = "arr"
    /\ \E i \in DOMAIN input.pages.items :
          \/ input.pages.items[i].t = "null"
          \/ /\ input.pages.items[i].sections.t = "arr"
             /\ \E j \in DOMAIN input.pages.items[i].sections.items :
                   input.pages.items[i].sections.items[j].t = "null"

\* a usable string: present, of type string, not blank
NonBlankString(v) == v.t = "str" /\ \E k \in DOMAIN v.s : ~IsSpace(v.s[k])
NonEmptyString(v) == v.t = "str" /\ Len(v.s) > 0
IsObjectLike(o) == o.t \in {"obj", "arr"}
IsFalsyTag(o) == o.t \in {"undef", "null", "num0", "false", "str"}

When(cond, e) == IF cond THEN {e} ELSE {}

\* the rules a section violates, stated rule by rule
SectionViolations(sec, i, j) ==
    IF ~IsObjectLike(sec) THEN {Err("section.object", i, j)}
    ELSE When(~NonBlankString(sec.id), Err("section.id", i, j))
         \cup When(~NonBlankString(sec.kind), Err("section.kind", i, j))
         \cup When(sec.variant.t \notin {"undef", "str"}, Err("section.variant", i, j))
         \cup When(sec.content.t \notin {"undef", "null", "obj", "arr"}, Err("section.content", i, j))

PageViolations(p, i) ==
    IF ~IsObjectLike(p) THEN {Err("page.object", i, -1)}
    ELSE When(~NonBlankString(p.id), Err("page.id", i, -1))
         \cup When(~NonBlankString(p.name), Err("page.name", i, -1))
         \cup When(~NonBlankString(p.route), Err("page.route", i, -1))
         \cup When(IsFalsyTag(p.sections), Err("page.sections.missing", i, -1))
         \cup When(~IsFalsyTag(p.sections) /\ p.sections.t # "arr", Err("page.sections.array", i, -1))
         \cup (IF p.sections.t = "arr"
               THEN UNION {SectionViolations(p.sections.items[j], i, j - 1) :
                              j \in DOMAIN p.sections.items}
               ELSE {})

Violations(spec) ==
    When(~NonBlankString(spec.name), Err("name", -1, -1))
    \cup When(~NonBlankString(spec.slug), Err("slug", -1, -1))
    \cup When(spec.description.t \notin {"undef", "str"}, Err("description", -1, -1))
    \cup When(/\ spec.architecture.t # "undef"
              /\ ~(/\ spec.architecture.t = "str"
                   /\ spec.architecture.s \in {S_landing, S_ecommerce, S_marketplace}),
              Err("architecture", -1, -1))
    \cup When(spec.theme.t \notin {"undef", "obj", "arr"}, Err("theme", -1, -1))
    \cup When(IsObjectLike(spec.theme) /\ ~NonEmptyString(spec.theme.primaryColor),
              Err("theme.primaryColor", -1, -1))
    \cup When(IsObjectLike(spec.theme) /\ ~NonEmptyString(spec.theme.font),
              Err("theme.font", -1, -1))
    \cup When(IsFalsyTag(spec.pages), Err("pages.missing", -1, -1))
    \cup When(~IsFalsyTag(spec.pages) /\ spec.pages.t # "arr", Err("pages.array", -1, -1))
    \cup When(spec.pages.t = "arr" /\ Len(spec.pages.items) = 0, Err("pages.empty", -1, -1))
    \cup (IF spec.pages.t = "arr"
          THEN UNION {PageViolations(spec.pages.items[i], i - 1) : i \in DOMAIN spec.pages.items}
          ELSE {})

\* position of a violation in the document: top-level fields first, then page
\* by page, each page's own fields before its sections
TopRank(rule) == CASE rule = "name" -> 1 [] rule = "slug" -> 2 [] rule = "description" -> 3
                   [] rule = "architecture" -> 4 [] rule = "theme" -> 5
                   [] rule = "theme.primaryColor" -> 6 [] rule = "theme.font" -> 7
                   [] OTHER -> 8
PageRank(rule) == CASE rule = "page.object" -> 0 [] rule = "page.id" -> 1
                    [] rule = "page.name" -> 2 [] rule = "page.route" -> 3
                    [] OTHER -> 4
SecRank(rule) == CASE rule = "section.object" -> 0 [] rule = "section.id" -> 1
                   [] rule = "section.kind" -> 2 [] rule = "section.variant" -> 3
                   [] OTHER -> 4
DocKey(e) == IF e.page = -1 THEN TopRank(e.rule)
             ELSE 100 + e.page * 1000
                  + (IF e.sec = -1 THEN PageRank(e.rule) ELSE 10 + e.sec * 10 + SecRank(e.rule))

Items(list) == IF list.t = "arr" THEN list.items ELSE <<>>

\* the sections validate visits: those of the pages that are objects
VisitedSections ==
    {<<i, j>> \in (1..MaxPages) \X (1..MaxSecs) :
        /\ i \in DOMAIN Items(input.pages)
        /\ input.pages.items[i].t = "obj"
        /\ j \in DOMAIN Items(input.pages.items[i].sections)
        /\ input.pages.items[i].sections.items[j].t = "obj"}

ContentOf(ij) == input.pages.items[ij[1]].sections.items[ij[2]].content

ContentReported(ij) == Err("section.content", ij[1] - 1, ij[2] - 1) \in RangeOf(vres.errors)

\* C20: validate reports a violation for every section whose content is
\* present but is not a mapping (a bare array, null) and for no section whose
\* content is a mapping; a Spec it accepts has no section with an array or
\* null as content.
C20_ContentMustBeMapping ==
    (Validated /\ input.t = "obj") =>
        /\ \A ij \in VisitedSections :
              /\ ContentOf(ij).t \in {"arr", "null"} => ContentReported(ij)
              /\ ContentOf(ij).t = "obj" => ~ContentReported(ij)
        /\ vres.valid =>
              \A ij \in VisitedSections : ContentOf(ij).t \notin {"arr", "null"}

(***************************************************************************)
(* Properties of repair.                                                   *)
(***************************************************************************)
\* C3 (as claimed): every Spec that validate accepts comes back from repair
\* unaltered: each provided value is returned as it was and none is dropped.
C3_RepairKeepsValidSpec ==
    (Repaired /\ vres.valid) => (~rres.threw /\ rres.spec = input)

\* the conditions under which repair must fail
NameUnusable(spec) == ~NonBlankString(spec.name)
PagesUnusable(spec) == ~(spec.pages.t = "arr" /\ Len(spec.pages.items) > 0)
KindUnusable(sec) == ~NonBlankString(sec.kind)
BadKindAt(spec, i, j) ==
    /\ i \in DOMAIN Items(spec.pages)
    /\ j \in DOMAIN Items(spec.pages.items[i].sections)
    /\ KindUnusable(spec.pages.items[i].sections.items[j])
SomeBadKind(spec) ==
    \E i \in DOMAIN Items(spec.pages) :
        \E j \in DOMAIN Items(spec.pages.items[i].sections) : BadKindAt(spec, i, j)

\* C4: repair throws, returning no partial Spec, whenever the name is
\* missing, not a string or blank, whenever pages is absent, not an array or
\* empty, and whenever a section of a page has a missing or blank kind; in
\* the kind case it stops at the first such section, the later sections of
\* that page not having been repaired.
C4_RepairThrowsOnUnrecoverable ==
    Repaired =>
        /\ (NameUnusable(input) \/ PagesUnusable(input) \/ SomeBadKind(input))
              => (rres.threw /\ rres.spec = NoSpec("undef"))
        /\ (rres.threw /\ rres.err = "kind") =>
              /\ BadKindAt(input, rres.page + 1, rres.sec + 1)
              /\ \A i \in 1..(rres.page + 1) :
                    \A j \in DOMAIN Items(input.pages.items[i].sections) :
                        (i < rres.page + 1 \/ j < rres.sec + 1) => ~BadKindAt(input, i, j)
              /\ rres.secsDone = rres.sec

\* repair has failed on a section without kind that follows a repairable one
C4_Witness ==
    /\ Repaired
    /\ rres.threw
    /\ rres.err = "kind"
    /\ rres.sec >= 1
    /\ Len(input.pages.items[rres.page + 1].sections.items) > rres.sec

\* counts and order of pages and sections are those of the input
SameShape(inp, out) ==
    /\ Len(out.pages.items) = Len(Items(inp.pages))
    /\ \A i \in DOMAIN out.pages.items :
          LET ip == inp.pages.items[i]
              op == out.pages.items[i]
          IN /\ NonBlankString(ip.id) => op.id = Str(trim(ip.id.s))
             /\ Len(op.sections.items) = Len(Items(ip.sections))
             /\ \A j \in DOMAIN op.sections.items :
                   op.sections.items[j].kind = Str(trim(ip.sections.items[j].kind.s))

MissingField(v) == v.t # "str" \/ \A k \in DOMAIN v.s : v.s[k] = " "

\* the page names that belong to the page ids of the inputs
NameOfId(id) ==
    CASE id = S_home -> S_Home
      [] id = <<"p","a","g","e","_","1">> -> <<"P","a","g","e"," ","1">>
      [] id = <<"p","a","g","e","_","2">> -> <<"P","a","g","e"," ","2">>
      [] id = <<"p","a","g","e","_","3">> -> <<"P","a","g","e"," ","3">>
      [] OTHER -> <<>>

\* the digit of a position of the bounded inputs
DigitOf(n) == CASE n = 1 -> <<"1">> [] n = 2 -> <<"2">> [] n = 3 -> <<"3">> [] OTHER -> <<"?">>

\* the backfilled fields of the repaired pages (page i of the model's
\* sequences is the page at the 0-based index i - 1)
BackfilledByPosition ==
    \A i \in DOMAIN rres.spec.pages.items :
        LET ip == input.pages.items[i]
            op == rres.spec.pages.items[i]
        IN /\ MissingField(ip.id) => op.id = Str(<<"p","a","g","e","_">> \o DigitOf(i))
           /\ MissingField(ip.name) => op.name = Str(NameOfId(op.id.s))
           /\ MissingField(ip.route) =>
                 op.route = Str(IF i = 1 THEN <<"/">> ELSE <<"/">> \o op.id.s)
           /\ \A j \in DOMAIN op.sections.items :
                 MissingField(ip.sections.items[j].id) =>
                     op.sections.items[j].id
                       = Str(<<"s","e","c","_">> \o op.id.s \o <<"_">> \o DigitOf(j))

\* the fields of page i and of its sections that the input supplied
SuppliedFields(i) ==
    LET ip == input.pages.items[i]
        op == rres.spec.pages.items[i]
    IN {[from |-> ip.id, to |-> op.id], [from |-> ip.name, to |-> op.name],
        [from |-> ip.route, to |-> op.route]}
       \cup {[from |-> ip.sections.items[j].id, to |-> op.sections.items[j].id] :
                j \in DOMAIN op.sections.items}

AsProjectSpec(spec) == [spec EXCEPT !.project = ProjectObj(spec.name, spec.slug)]

\* the slug each path settles on for the candidate
SlugByRepair == rres.spec.slug.s
SlugByOrchestrator == resolveProjectSlug(AsProjectSpec(input).project)
SlugByPromptToSpec == backfillSlug(input).slug.s

\* C25: slug resolution is the same on every path: for every identity (a
\* name with an absent, empty, blank or non-blank slug) the slug resolved by
\* repair, by the orchestrator and by promptToSpec's backfill is the same
\* string.
C25_SlugSameOnEveryPath ==
    (Repaired /\ ~rres.threw /\ input.slug.t \in {"undef", "str"}) =>
        /\ SlugByRepair = SlugByOrchestrator
        /\ SlugByOrchestrator = SlugByPromptToSpec

\* C28: every Spec that repair returns is accepted by validate (valid, no
\* errors): its slug is non-empty even when the name has no alphanumeric
\* character, its architecture is a valid preset or absent, and every page
\* and section has a non-empty id, name, route and kind.
C28_RepairedIsValid ==
    (Repaired /\ ~rres.threw) =>
        /\ ~validate(rres.spec).threw
        /\ validate(rres.spec).valid
        /\ validate(rres.spec).errors = <<>>

(***************************************************************************)
(* Properties of project generation.                                       *)
(***************************************************************************)
Runs == 1..MaxRuns

\* the (kind, variant-or-"default") pair of a section is not in the registry
Unresolved(sec) == ~HasComponent(sec.kind, sec.variant)

FirstPageHasUnresolved(spec) ==
    /\ FirstPageSections(spec).ok
    /\ \E j \in DOMAIN FirstPageSections(spec).items :
          Unresolved(FirstPageSections(spec).items[j])

\* the run got as far as page generation
ReachedPageStep(r) == run[r].steps # <<>>

RendersUnresolved(tree) == \E k \in DOMAIN tree.page.body : tree.page.body[k].name = "undefined"

\* C6: when the first page holds a section whose (kind, variant-or-"default")
\* pair is not registered, page generation throws the unknown-component
\* error, the run writes no page source, and no tree ever holds a page that
\* renders the section as an unresolved element.
C6_UnknownComponentRejected ==
    /\ \A r \in Runs :
          ReachedPageStep(r) /\ FirstPageHasUnresolved(run[r].spec)
             => run[r].err = "UnknownComponent" /\ run[r].wrotePage = "none"
    /\ ~RendersUnresolved(templates)
    /\ \A sl \in DOMAIN output : ~RendersUnresolved(output[sl])

\* C7: two generate runs of the same Spec, the second begun after the first
\* finished, leave byte-identical output trees (page, layout, stylesheet and
\* the rest).
C7_SequentialRunsAgree ==
    \A r1, r2 \in Runs :
        /\ run[r1].pc = "done" /\ run[r2].pc = "done"
        /\ r1 \in run[r2].after
        /\ run[r1].spec = run[r2].spec
        => run[r1].result = run[r2].result

HeroSplitPage ==
    [generated |-> TRUE,
     imports |-> <<generateImport("HeroSplit", "sections", "default")>>,
     body |-> <<[name |-> "HeroSplit",
                 props |-> <<[k |-> S_title, v |-> <<"\"", "T", "\"">>],
                             [k |-> S_subtitle, v |-> <<"\"", "S", "\"">>]>>]>>]

\* C8: generate of the Demo spec (no slug, no theme, no ids) does not fail;
\* when it has completed the slug is "demo", output/demo holds a page that
\* imports HeroSplit and renders title="T" subtitle="S", and output/demo.zip
\* is complete and contains that page.
C8_DemoSpecGenerates ==
    \A r \in Runs :
        run[r].spec = DemoSpec
        => /\ run[r].pc # "failed"
           /\ run[r].pc = "done"
              => /\ run[r].slug = S_demo
                 /\ run[r].result.page = HeroSplitPage
                 /\ S_demo \in DOMAIN zips
                 /\ run[r].snapshot.page = HeroSplitPage

\* the spelling of a component identifier
Spelling(name) ==
    CASE name = "Features" -> <<"F","e","a","t","u","r","e","s">>
      [] name = "Footer" -> <<"F","o","o","t","e","r">>
      [] name = "Hero" -> <<"H","e","r","o">>
      [] name = "HeroDefault" -> <<"H","e","r","o","D","e","f","a","u","l","t">>
      [] name = "HeroSplit" -> <<"H","e","r","o","S","p","l","i","t">>
      [] name = "Pricing" -> <<"P","r","i","c","i","n","g">>
      [] name = "undefined" -> <<"u","n","d","e","f","i","n","e","d">>

LetterRank(c) == IndexIn(LowerAlpha, LowerChar(c))

\* a comes strictly before b in alphabetical order
RECURSIVE AlphaBefore(_, _)
AlphaBefore(a, b) ==
    IF b = <<>> THEN FALSE
    ELSE IF a = <<>> THEN TRUE
    ELSE IF LetterRank(Head(a)) # LetterRank(Head(b))
         THEN LetterRank(Head(a)) < LetterRank(Head(b))
    ELSE AlphaBefore(Tail(a), Tail(b))

\* the component the installed page generator resolves a section to
ComponentFor(sec) ==
    IF build = "table" THEN ComponentOfKind(sec.kind)
    ELSE getSectionComponentName(sec.kind, sec.variant)

WrotePage(r) == run[r].wrotePage # "none"

\* C11: a generated page source has exactly one import per distinct component
\* used by the sections of the first page, the imports are in alphabetical
\* order of component identifier whatever the order of the sections, and the
\* body has one element per section, in the order of the sections in the
\* Spec.
C11_ImportsSortedBodyInSpecOrder ==
    \A r \in Runs :
        WrotePage(r) =>
            LET secs == FirstPageSections(run[r].spec).items
                page == run[r].page
            IN /\ page.generated
               /\ Len(page.body) = Len(secs)
               /\ \A j \in DOMAIN secs : page.body[j].name = ComponentFor(secs[j])
               /\ {page.imports[k].name : k \in DOMAIN page.imports}
                     = {page.body[j].name : j \in DOMAIN page.body}
               /\ \A k, l \in DOMAIN page.imports :
                     k < l => AlphaBefore(Spelling(page.imports[k].name),
                                          Spelling(page.imports[l].name))

\* a run has written a page whose sections repeat a kind and are not in
\* alphabetical order of component
C11_Witness ==
    \E r \in Runs :
        /\ WrotePage(r)
        /\ Len(run[r].page.imports) >= 2
        /\ Len(run[r].page.body) > Len(run[r].page.imports)
        /\ \E j \in 1..(Len(run[r].page.body) - 1) :
              AlphaBefore(Spelling(run[r].page.body[j + 1].name),
                          Spelling(run[r].page.body[j].name))

AllSteps == <<"copy", "page", "theme", "archive">>

\* C12: in every generate run the steps happen in the order scaffold copy,
\* page synthesis, theme synthesis, archive; the archive's stream is opened
\* only once both synthesizers have finished, and the promise of generate
\* resolves only after the archive's write stream has closed.
C12_StepsInOrder ==
    \A r \in Runs :
        /\ \E n \in 0..Len(AllSteps) : run[r].steps = SubSeq(AllSteps, 1, n)
        /\ StreamOpen(r) => Len(run[r].steps) >= 3
        /\ run[r].pc = "finalizing" => StreamOpen(r)
        /\ run[r].pc = "done" => (run[r].steps = AllSteps /\ ~StreamOpen(r))

\* a run has resolved while another run's archive is still being written
C12_Witness ==
    \E r, q \in Runs :
        /\ run[r].pc = "done"
        /\ run[r].steps = AllSteps
        /\ run[q].pc = "finalizing"

\* the steps that have run when generate fails with the given error
StepsBefore(err) ==
    CASE err \in {"project", "identity", "copy"} -> <<>>
      [] err = "UnknownComponent" -> <<"copy">>
      [] err = "TypeError" -> {<<>>, <<"copy">>, <<"copy", "page">>}
      [] err = "archive" -> <<"copy", "page", "theme">>
      [] OTHER -> <<>>

FailedAt(r, steps) ==
    IF run[r].err = "TypeError" THEN steps \in StepsBefore("TypeError")
    ELSE steps = StepsBefore(run[r].err)

\* C13: when a step of generate fails (no project identity, copy error,
\* unknown component, theme rewrite error, archive error) the call rejects,
\* no later step runs, and what was written under output/{slug} before the
\* failure stays; a failure before the archive step neither creates nor
\* rewrites output/{slug}.zip.
C13_FailureAbortsRun ==
    /\ [](\A r \in Runs :
            /\ run[r].err # "" => run[r].pc = "failed"
            /\ run[r].pc = "failed" =>
                  /\ FailedAt(r, run[r].steps)
                  /\ run[r].steps # <<>> =>
                        (run[r].slug \in DOMAIN output /\ output[run[r].slug].exists))
    /\ [][\A r \in Runs :
            /\ (run[r].pc = "idle" /\ run'[r].pc = "failed") => zips' = zips
            /\ run[r].pc = "failed" => run'[r] = run[r]]_vars

\* the scaffold with the page source and the layout/stylesheet pair made from
\* the given Spec
ScaffoldFor(spec) ==
    generateTheme(spec, [copyDir(ScaffoldTree, NoTree) EXCEPT
                            !.page = generatePage(build, spec).src]).tree

\* C14: when generate has succeeded, output/{slug} is the scaffold file for
\* file except for the page source and the layout/stylesheet pair, and these
\* are the ones made from the Spec of this run (its sections, its primary
\* colour, its font).
C14_OutputIsScaffoldPlusSpec ==
    \A r \in Runs :
        run[r].pc = "done" => run[r].result = ScaffoldFor(run[r].spec)

\* C15: the scaffold under templates/next-js is never created, changed or
\* deleted by a run; page and theme synthesis write under output/{slug} only.
C15_ScaffoldImmutable == templates = ScaffoldTree

\* the tree generate leaves under output/{slug} for the Spec when it is the
\* only call made on a fresh installation
AloneTree(spec) == generateProject(build, spec, ScaffoldTree, <<>>).dest

\* the calls r and q overlapped and no other call was made
OnlyConcurrent(r, q) ==
    /\ r # q
    /\ r \notin run[q].after /\ q \notin run[r].after
    /\ \A p \in Runs \ {r, q} : run[p].pc = "idle"

\* C16: two generate calls that overlap at the archive step and use different
\* slugs do not influence each other: each leaves under output/{slug} the
\* tree, and in output/{slug}.zip the archive, it leaves when it runs alone.
C16_DistinctSlugsIndependent ==
    \A r, q \in Runs :
        (/\ OnlyConcurrent(r, q)
         /\ run[r].pc = "done" /\ run[q].pc = "done"
         /\ run[r].slug # run[q].slug)
        => /\ run[r].result = AloneTree(run[r].spec)
           /\ zips[run[r].slug].complete
           /\ zips[run[r].slug].tree = AloneTree(run[r].spec)

\* C17: in the request handler, when the model server does not deliver a
\* Spec (no answer in time, no connection, a status that is not OK, text that
\* is not JSON, no pages), the request ends there: generate is never called
\* for it, the step that handles it writes nothing under the output root,
\* and the response has a 5xx status.
C17_NoSpecIsFatal ==
    /\ [](\A k \in Runs :
            post[k].collab = "failed" =>
               /\ post[k].pc = "responded"
               /\ post[k].status >= 500 /\ post[k].status <= 599
               /\ run[k].pc = "idle")
    /\ [][\A k \in Runs :
            (post[k].pc = "idle" /\ post'[k].collab = "failed")
               => UNCHANGED <<output, zips>>]_vars

\* a request failed for want of a Spec on an installation that has served
\* another request with an archive
C17_Witness ==
    \E k, q \in Runs :
        /\ post[k].collab = "failed" /\ post[k].pc = "responded"
        /\ post[k].details = "pages"
        /\ post[q].status = 200

\* C18: the POST handler never throws: every request gets a response, with a
\* 4xx status and an error object when the prompt is missing, not a string
\* or blank or the body is malformed, with a 5xx status and {error, details}
\* when the model server or the generation fails, and with the success
\* envelope only when the archive of this request exists.
C18_HandlerAlwaysResponds ==
    \A k \in Runs :
        /\ post[k].pc # "threw"
        /\ post[k].pc = "awaiting" => run[k].pc # "pending"
        /\ post[k].pc = "responded" =>
              /\ post[k].collab = "none" =>
                    (post[k].status = 400 /\ post[k].error # "")
              /\ (post[k].collab = "failed" \/ run[k].pc = "failed") =>
                    (post[k].status = 500 /\ post[k].error # "" /\ post[k].details # "")
              /\ post[k].status = 200 =>
                    /\ run[k].pc = "done"
                    /\ post[k].slug = run[k].slug
                    /\ post[k].data.complete

\* run r rewrote the stylesheet with the primary colour of its Spec
WroteColour(r) ==
    /\ Len(run[r].steps) >= 2
    /\ ~IsNullish(Tag(run[r].spec.theme))
    /\ run[r].spec.theme.primaryColor.t = "str"

\* C19: hexToOklch gives a lightness within 0.01 of 0 for "#000000" and
\* within 0.01 of 1 for "#ffffff", and for every six-digit colour a lightness
\* in [0, 1] and a hue in [0, 360).
C19_LightnessAndHueInRange ==
    \A r \in Runs :
        WroteColour(r) =>
            LET hex == run[r].spec.theme.primaryColor.s
                oklch == hexToOklch(hex)
            IN /\ hex = S_hex => oklch.l <= 10
               /\ hex = S_white => oklch.l >= 990
               /\ oklch.l >= 0 /\ oklch.l <= 1000
               /\ oklch.h >= 0 /\ oklch.h < 3600

\* what may follow the first page of a Spec: nothing, a page with sections of
\* a kind no registry knows, pages with other ids and routes
LaterPages ==
    {<<>>,
     <<PageObj(Str(S_blog), Undef, Undef, ListOf(<<Carousel>>))>>,
     <<PageObj(Undef, Str(S_Demo), Str(S_slash), ListOf(<<HeroWide, FeaturesPlain>>))>>,
     <<PageObj(Str(S_demo), Undef, Undef, NoList("undef")),
       PageObj(Undef, Undef, Str(S_slash), ListOf(<<HeroSplitTS>>))>>}

\* the Specs equal to spec except in the pages after the first
SameButLaterPages(spec) ==
    {[spec EXCEPT !.pages.items = <<spec.pages.items[1]>> \o tail] : tail \in LaterPages}

\* run r called the page synthesizer on a Spec with a first page
SynthesizedPage(r) ==
    /\ run[r].steps # <<>>
    /\ run[r].spec.pages.t = "arr"
    /\ Len(run[r].spec.pages.items) >= 1

\* C21: page synthesis depends only on the first page: two Specs that are
\* equal except in the pages after the first (their number, ids, routes and
\* sections, unregistered kinds included) give the same page source and the
\* same success or failure.
C21_OnlyFirstPageMatters ==
    [][\A r \in Runs :
          (run[r].pc = "idle" /\ SynthesizedPage(r)') =>
              \A other \in SameButLaterPages(run'[r].spec) :
                  /\ generatePage(build, other) = generatePage(build, run'[r].spec)
                  /\ WrotePage(r)' => run'[r].page = generatePage(build, other).src
                  /\ ~WrotePage(r)' => generatePage(build, other).threw]_vars

\* a Spec whose second page has an unregistered kind got its page written
C21_Witness ==
    \E r \in Runs :
        /\ WrotePage(r)
        /\ Len(run[r].spec.pages.items) = 2
        /\ Unresolved(run[r].spec.pages.items[2].sections.items[1])
        /\ run[r].page.generated

\* the value of the declaration of the property `name` in a block
ValueOf(decls, name) == decls[CHOOSE j \in DOMAIN decls : decls[j].prop = name].val

IsThemeColour(d) == d.prop \in {S_primary, S_primary_foreground}
IsOtherDeclaration(d) == ~IsThemeColour(d)

\* a block of the stylesheet as the rewrite must leave it: the same
\* properties in the same places, the values of the others as they were
SameButThemeColours(before, after) ==
    /\ DOMAIN after = DOMAIN before
    /\ \A j \in DOMAIN before :
          /\ after[j].prop = before[j].prop
          /\ IsOtherDeclaration(before[j]) => after[j] = before[j]

\* C22: for a primary colour of lightness L as written to the stylesheet,
\* the foreground of the light scope has lightness 0.985 when L < 0.5 and
\* 0.145 otherwise, with chroma 0; the primary of the dark scope has the same
\* chroma and hue and the lightness min(0.923, L + 0.3); after the rewrite
\* :root holds the light values and .dark the dark values, and every
\* declaration other than --primary and --primary-foreground is unchanged.
C22_LightAndDarkScopes ==
    [][\A r \in Runs :
          (run[r].pc = "idle" /\ WroteColour(r)') =>
              LET before == templates.css
                  after == templates'.css
                  primary == ValueOf(after.root, S_primary)
                  foreground == ValueOf(after.root, S_primary_foreground)
                  darkPrimary == ValueOf(after.dark, S_primary)
                  darkForeground == ValueOf(after.dark, S_primary_foreground)
                  L == primary.l
              IN /\ primary = hexToOklch(run'[r].spec.theme.primaryColor.s)
                 /\ foreground.l = (IF L < 500 THEN 985 ELSE 145)
                 /\ foreground.c = 0
                 /\ darkPrimary.c = primary.c /\ darkPrimary.h = primary.h
                 /\ L + 300 <= 923 => darkPrimary.l = L + 300
                 /\ L + 300 > 923 => darkPrimary.l = 923
                 /\ darkForeground.l = (IF darkPrimary.l < 500 THEN 985 ELSE 145)
                 /\ darkForeground.c = 0
                 /\ SameButThemeColours(before.root, after.root)
                 /\ SameButThemeColours(before.dark, after.dark)]_vars

\* the stylesheet after a rewrite with a light primary colour: a dark
\* foreground in :root, the capped lightness in .dark, the sidebar's
\* primary colours as the scaffold has them
C22_Witness ==
    \E r \in Runs :
        /\ WroteColour(r)
        /\ ValueOf(templates.css.root, S_primary)
              = hexToOklch(run[r].spec.theme.primaryColor.s)
        /\ ValueOf(templates.css.root, S_primary).l >= 500
        /\ ValueOf(templates.css.root, S_primary_foreground) = Oklch(145, 0, 0)
        /\ ValueOf(templates.css.dark, S_primary).l = 923
        /\ ValueOf(templates.css.dark, S_primary).c > 0
        /\ ValueOf(templates.css.dark, S_sidebar_primary)
              = ValueOf(ScaffoldCss.dark, S_sidebar_primary)

\* the text between the quotes of an attribute read back: a backslash
\* stands for the character after it
RECURSIVE Unescape(_)
Unescape(text) ==
    IF text = <<>> THEN <<>>
    ELSE IF Head(text) = "\\" /\ Len(text) >= 2
         THEN <<text[2]>> \o Unescape(Tail(Tail(text)))
    ELSE <<Head(text)>> \o Unescape(Tail(text))

\* no double quote of the text stands without a backslash before it
RECURSIVE NoBareQuote(_)
NoBareQuote(text) ==
    IF text = <<>> THEN TRUE
    ELSE IF Head(text) = "\\" THEN Len(text) >= 2 /\ NoBareQuote(Tail(Tail(text)))
    ELSE Head(text) # "\"" /\ NoBareQuote(Tail(text))

\* the compact JSON text of the array and of the object of the inputs
CompactJson(v) ==
    IF v.t = "arr" THEN <<"[", "\"", "T", "\"", ",", "0", ",", "null", "]">>
    ELSE <<"{", "\"", "t", "i", "t", "l", "e", "\"", ":", "\"", "S", "\"", "}">>

\* the attribute value `text` renders the content value v as stated
RendersValue(text, v) ==
    CASE v.t = "str" ->
            /\ Len(text) >= 2 /\ Head(text) = "\"" /\ text[Len(text)] = "\""
            /\ NoBareQuote(SubSeq(text, 2, Len(text) - 1))
            /\ Unescape(SubSeq(text, 2, Len(text) - 1)) = v.s
      [] v.t = "num0" -> text = <<"{", "0", "}">>
      [] v.t = "num" -> text = <<"{">> \o v.s \o <<"}">>
      [] v.t = "true" -> text = <<"{", "true", "}">>
      [] v.t = "false" -> text = <<"{", "false", "}">>
      [] v.t \in {"arr", "obj"} -> text = <<"{">> \o CompactJson(v) \o <<"}">>
      [] OTHER -> TRUE

\* the sections of the first page of run r that have content, with the
\* element written for each
RenderedContent(r) ==
    {[entries |-> run[r].spec.pages.items[1].sections.items[j].content.entries,
      props |-> run[r].page.body[j].props] :
        j \in {i \in DOMAIN run[r].page.body :
                  run[r].spec.pages.items[1].sections.items[i].content.t = "obj"}}

Omitted(e) == e.v.t \in {"null", "undef"}
NotOmitted(e) == ~Omitted(e)

\* C23 as stated: each key of a section's content yields exactly one
\* attribute, in key order, strings quoted and escaped, numbers and booleans
\* unquoted, arrays and objects as compact JSON; no key is dropped, not even
\* one whose value is null or an empty string.
C23_EveryKeyOneAttribute ==
    \A r \in Runs :
        (WrotePage(r) /\ run[r].page.generated) =>
            \A rc \in RenderedContent(r) :
                /\ Len(rc.props) = Len(rc.entries)
                /\ \A i \in DOMAIN rc.entries :
                      /\ rc.props[i].k = rc.entries[i].k
                      /\ RendersValue(rc.props[i].v, rc.entries[i].v)

\* C23, amended: the keys whose value is null or undefined yield no
\* attribute; each other key (one with an empty string included) yields
\* exactly one attribute, in key order, rendered as stated.
C23_EveryKeyButNullOneAttribute ==
    \A r \in Runs :
        (WrotePage(r) /\ run[r].page.generated) =>
            \A rc \in RenderedContent(r) :
                LET kept == SelectSeq(rc.entries, NotOmitted)
                IN /\ Len(rc.props) = Len(kept)
                   /\ \A i \in DOMAIN kept :
                         /\ rc.props[i].k = kept[i].k
                         /\ RendersValue(rc.props[i].v, kept[i].v)

\* a written element whose content has a null value, an empty string, a
\* string with a quote and a backslash, a number, a boolean, an array and an
\* object
C23_Witness ==
    \E r \in Runs :
        /\ WrotePage(r) /\ run[r].page.generated
        /\ \E rc \in RenderedContent(r) :
              /\ \E i \in DOMAIN rc.entries : Omitted(rc.entries[i])
              /\ \E i \in DOMAIN rc.entries : rc.entries[i].v = Str(<<>>)
              /\ \E i \in DOMAIN rc.entries : rc.entries[i].v = Str(S_quoted)
              /\ {rc.entries[i].v.t : i \in DOMAIN rc.entries}
                    = {"str", "null", "num", "true", "arr", "obj"}
              /\ Len(rc.props) = Len(rc.entries) - 1

\* run r rewrote the layout with the font of its Spec
RewroteLayout(r) == Len(run[r].steps) >= 3

\* C26: after any sequence of font rewrites of a layout (same or different
\* font names) the layout has exactly one font-import line and exactly one
\* font-factory declaration, both for the font requested last; its root
\* class attribute is the new font-variable reference, font-sans, the
\* remaining original classes in their order, antialiased, each once; and a
\* second rewrite with the same font leaves the file unchanged.
C26_OneFontAfterAnyRewrites ==
    [][\A r \in Runs :
          (run[r].pc = "idle" /\ RewroteLayout(r)') =>
              LET fontName == run'[r].spec.theme.font.s
                  layout == templates'.layout
                  originals == SelectSeq(ScaffoldLayout.classes,
                                         LAMBDA c : ~c.ref /\ c.s # S_antialiased)
              IN /\ layout.fontImports = <<fontName>>
                 /\ Len(layout.fontDecls) = 1
                 /\ layout.fontDecls[1].font = fontName
                 /\ layout.classes = <<ClassRef(layout.fontDecls[1].var),
                                        ClassName(S_font_sans)>>
                                      \o originals \o <<ClassName(S_antialiased)>>
                 /\ updateLayout(fontName, layout) = layout]_vars

\* the archive of run q is being read or written
ArchiveInProgress(q) == run[q].pc \in {"archiving", "finalizing"} /\ StreamOpen(q)

\* run r is the next call to be made
NextCall(r) == run[r].pc = "idle" /\ \A p \in 1..(r - 1) : run[p].pc # "idle"

\* C27: requests that resolve to the same slug are not mutually excluded:
\* while the archive of the first call is still being read or written, a
\* second call with the same Spec, whose synchronous copy, page and theme
\* writes go into the same output/{slug}, can be made; and any two runs of
\* one slug whose archives are in progress write the same output/{slug}.zip.
C27_NoMutualExclusion ==
    /\ (ArchiveInProgress(1) /\ NextCall(2)) => ENABLED StartGenerate(2, run[1].spec)
    /\ \A q \in Runs : \A p \in Runs :
          (p # q /\ ArchiveInProgress(q) /\ ArchiveInProgress(p)
             /\ run[p].slug = run[q].slug) =>
              /\ {p, q} \subseteq zips[run[q].slug].writers
              /\ zips[run[q].slug].torn

\* the archiver of one run has read, from the directory it shares with a
\* later run of the same slug, the page of that run's Spec
C27_Witness ==
    \E q \in Runs : \E r \in Runs :
        /\ q # r
        /\ run[q].slug = run[r].slug
        /\ run[q].spec # run[r].spec
        /\ q \notin run[r].after
        /\ run[q].pc = "done"
        /\ WrotePage(r) /\ WrotePage(q)
        /\ run[q].page # run[r].page
        /\ run[q].snapshot.page = run[r].page
        /\ zips[run[q].slug].torn

\* the promise of run r's packager is neither resolved nor rejected and no
\* event is left that would settle it
NeverSettles(r) == run[r].pc = "pending"

\* C29: the promise of the archive packager settles in every execution: it
\* resolves, and only after the output stream has closed, or it rejects, for
\* an error of the archiver as well as for a failure of the output write
\* stream or of reading the source tree; it never stays pending.
C29_PackagerPromiseSettles ==
    \A r \in Runs :
        /\ run[r].pc = "done" => ~StreamOpen(r)
        /\ run[r].err = "archive" => run[r].pc = "failed"
        /\ ~NeverSettles(r)

\* request k passed the handler's identity check and called generate
CalledGenerate(k) == post[k].pc # "idle" /\ run[k].pc # "idle"

\* request k was answered with the success envelope
Succeeded(k) == post[k].pc = "responded" /\ post[k].status = 200

\* C30: the handler and the orchestrator agree on the project identity:
\* every Spec that passes the handler's identity check is accepted by the
\* orchestrator's identity check, the archive path the handler reads after
\* generate is the path generate wrote in this request, and a success
\* response never carries an archive left by an earlier request.
C30_HandlerAndOrchestratorAgree ==
    \A k \in Runs :
        /\ CalledGenerate(k) => run[k].err \notin {"project", "identity"}
        /\ (CalledGenerate(k) /\ run[k].pc = "done") => post[k].slug = run[k].slug
        /\ Succeeded(k) =>
              /\ run[k].pc = "done"
              /\ post[k].slug = run[k].slug

\* [a-z0-9-]+ style slug: no other character, no doubled hyphen, no hyphen at
\* either end
UrlSafe(s) ==
    /\ \A k \in DOMAIN s : s[k] \in RangeOf(LowerAlpha) \cup RangeOf(DigitChars) \cup {"-"}
    /\ \A k \in 1..(Len(s) - 1) : ~(s[k] = "-" /\ s[k + 1] = "-")
    /\ s # <<>> => (s[1] # "-" /\ s[Len(s)] # "-")

\* C9 (as claimed): every slug that leaves repair is URL-safe, whether it
\* was derived from the name or supplied in the input.
C9_RepairedSlugUrlSafe ==
    (Repaired /\ ~rres.threw) => UrlSafe(rres.spec.slug.s)

Distinct(sq) == \A a, b \in DOMAIN sq : a # b => sq[a] # sq[b]

UniqueIds(spec) ==
    /\ Distinct([i \in DOMAIN spec.pages.items |-> spec.pages.items[i].id])
    /\ \A i \in DOMAIN spec.pages.items :
          LET ss == spec.pages.items[i].sections.items
          IN Distinct([j \in DOMAIN ss |-> ss[j].id])

\* C10 (as claimed): a Spec that validate accepts has pairwise distinct page
\* ids and, within each page, pairwise distinct section ids, and so has
\* every Spec returned by repair.
C10_IdsUnique ==
    /\ (Validated /\ vres.valid) => UniqueIds(input)
    /\ (Repaired /\ ~rres.threw) => UniqueIds(rres.spec)

====
